---- MODULE Spec2Model ----
(***************************************************************************)
(* vis-code: source-text parsing and graph-construction pipeline.          *)
(*                                                                         *)
(* A string is a sequence of one-character strings, positions are 1-based  *)
(* (JavaScript index k is position k+1; "not found", -1 in JavaScript, is  *)
(* position 0).  The type keyword at the head of a node id is kept as one  *)
(* symbol: it is drawn from the fixed vocabulary and holds no ':'.         *)
(***************************************************************************)
EXTENDS Integers, Sequences, FiniteSets, TLC

VARIABLES root, store, bodies, page, input, output, files, idx, pc, allNodes,
          allDependencies, project, graphData, view, viewData

vars == <<root, store, bodies, page, input, output, files, idx, pc, allNodes,
          allDependencies, project, graphData, view, viewData>>

(***************************************************************************)
(* Strings                                                                 *)
(***************************************************************************)
Min(S) == CHOOSE x \in S : \A y \in S : x <= y

Max(S) == CHOOSE x \in S : \A y \in S : x >= y

Lower == {"a", "b", "c", "d", "e", "f", "g", "h", "i", "j", "k", "l", "m",
          "n", "o", "p", "q", "r", "s", "t", "u", "v", "w", "x", "y", "z"}

Upper == {"A", "B", "C", "D", "E", "F", "G", "H", "I", "J", "K", "L", "M",
          "N", "O", "P", "Q", "R", "S", "T", "U", "V", "W", "X", "Y", "Z"}

Digit == {"0", "1", "2", "3", "4", "5", "6", "7", "8", "9"}

\* [a-zA-Z_]
IdStart == Lower \cup Upper \cup {"_"}

\* [a-zA-Z0-9_]
IdChar == IdStart \cup Digit

\* \s
IsWs(c) == c \in {" ", "\n", "\t"}

\* s.substring(from, to) with 1-based from and exclusive to
Sub(s, from, to) == SubSeq(s, from, to - 1)

\* the text w occurs in s at position i
LitAt(s, i, w) ==
    /\ i >= 1
    /\ i + Len(w) - 1 <= Len(s)
    /\ \A k \in 1..Len(w) : s[i + k - 1] = w[k]

\* s.indexOf(w, from): the first position >= from where w occurs, 0 when none
IndexOf(s, w, from) ==
    LET hits == {i \in from..Len(s) : LitAt(s, i, w)}
    IN  IF hits = {} THEN 0 ELSE Min(hits)

\* s.lastIndexOf(w): the last position where w occurs, 0 when none
LastIndexOf(s, w) ==
    LET hits == {i \in 1..Len(s) : LitAt(s, i, w)}
    IN  IF hits = {} THEN 0 ELSE Max(hits)

\* s.includes(w)
Includes(s, w) == IndexOf(s, w, 1) # 0

\* the position after a greedy \s* starting at i
SkipWs(s, i) ==
    Min({j \in i..(Len(s) + 1) :
            /\ \A k \in i..(j - 1) : IsWs(s[k])
            /\ j = Len(s) + 1 \/ ~IsWs(s[j])})

\* the position after a greedy [a-zA-Z_][a-zA-Z0-9_]* starting at i, 0 when none
IdentEnd(s, i) ==
    IF i > Len(s) \/ s[i] \notin IdStart THEN 0
    ELSE Min({j \in (i + 1)..(Len(s) + 1) :
                /\ \A k \in (i + 1)..(j - 1) : s[k] \in IdChar
                /\ j = Len(s) + 1 \/ s[j] \notin IdChar})

\* the position after an optional (?:<[^>]*>)? starting at i
GenericEnd(s, i) ==
    IF i <= Len(s) /\ s[i] = "<" /\ IndexOf(s, <<">">>, i + 1) # 0
    THEN IndexOf(s, <<">">>, i + 1) + 1
    ELSE i

\* s.split(sep) for a non-empty separator
RECURSIVE Split(_, _)
Split(s, sep) ==
    LET i == IndexOf(s, sep, 1)
    IN  IF i = 0 THEN <<s>>
        ELSE <<Sub(s, 1, i)>> \o Split(Sub(s, i + Len(sep), Len(s) + 1), sep)

\* parts.join(sep)
RECURSIVE Join(_, _)
Join(parts, sep) ==
    IF Len(parts) = 0 THEN <<>>
    ELSE IF Len(parts) = 1 THEN parts[1]
    ELSE parts[1] \o sep \o Join(Tail(parts), sep)

\* the matches of a global regular expression, in exec order: m[i] is the
\* match attempt at position i, the next search starts at the end of a match
RECURSIVE ExecAll(_, _, _)
ExecAll(m, n, from) ==
    LET hits == {i \in from..n : m[i].ok}
    IN  IF hits = {} THEN <<>>
        ELSE <<m[Min(hits)]>> \o ExecAll(m, n, m[Min(hits)].end)

NoMatch == [ok |-> FALSE]

\* the concatenation of a sequence of sequences
RECURSIVE Flatten(_)
Flatten(ss) == IF Len(ss) = 0 THEN <<>> ELSE ss[1] \o Flatten(Tail(ss))

(***************************************************************************)
(* Rust parser (rust-parser-simple)                                        *)
(***************************************************************************)
KwFn == <<"f", "n">>

KwStruct == <<"s", "t", "r", "u", "c", "t">>

KwEnum == <<"e", "n", "u", "m">>

KwTrait == <<"t", "r", "a", "i", "t">>

KwImpl == <<"i", "m", "p", "l">>

KwMod == <<"m", "o", "d">>

KwUse == <<"u", "s", "e">>

KwFor == <<"f", "o", "r">>

KwPub == <<"p", "u", "b", " ">>

KwArrow == <<"-", ">">>

ColonColon == <<":", ":">>

\* ['if', 'while', 'for', 'match']
RustKeywords == {<<"i", "f">>, <<"w", "h", "i", "l", "e">>, KwFor, <<"m", "a", "t", "c", "h">>}

\* `${type}:${path}:${name}`
generateId(type, name, path) == <<type, ":">> \o path \o <<":">> \o name

\* code.substring(Math.max(0, index - 5), index).includes('pub ')
Visibility(code, i) ==
    IF Includes(Sub(code, Max({1, i - 5}), i), KwPub) THEN "public" ELSE "private"

\* /fn\s+([a-zA-Z_][a-zA-Z0-9_]*)\s*(?:<[^>]*>)?\s*\(([^)]*)\)(?:\s*->\s*([^{]*))?/ at i
FunctionMatchAt(code, i) ==
    LET p2 == SkipWs(code, i + 2)
        p3 == IdentEnd(code, p2)
        p5 == SkipWs(code, GenericEnd(code, SkipWs(code, p3)))
        p6 == IndexOf(code, <<")">>, p5 + 1)
        p7 == SkipWs(code, p6 + 1)
        p8 == IndexOf(code, <<"{">>, p7 + 2)
    IN  IF /\ LitAt(code, i, KwFn)
           /\ p2 > i + 2
           /\ p3 # 0
           /\ p5 <= Len(code)
           /\ code[p5] = "("
           /\ p6 # 0
        THEN [ok |-> TRUE, index |-> i, name |-> Sub(code, p2, p3),
              end |-> IF LitAt(code, p7, KwArrow)
                      THEN (IF p8 = 0 THEN Len(code) + 1 ELSE p8)
                      ELSE p6 + 1]
        ELSE NoMatch

\* /([a-zA-Z_][a-zA-Z0-9_]*)\s*\(/ at i
CallMatchAt(body, i) ==
    LET p1 == IdentEnd(body, i)
        p2 == SkipWs(body, p1)
    IN  IF p1 # 0 /\ p2 <= Len(body) /\ body[p2] = "("
        THEN [ok |-> TRUE, index |-> i, name |-> Sub(body, i, p1), end |-> p2 + 1]
        ELSE NoMatch

\* the call edges of one function: lines 77-100
RustCalls(code, m, id) ==
    LET endIndex == IndexOf(code, <<"}">>, m.index)
        functionBody == Sub(code, m.index, endIndex)
        calls == ExecAll([j \in 1..Len(functionBody) |-> CallMatchAt(functionBody, j)],
                         Len(functionBody), 1)
        kept == SelectSeq(calls, LAMBDA c : c.name \notin RustKeywords)
    IN  IF endIndex > m.index
        THEN [k \in 1..Len(kept) |->
                [source |-> id,
                 target |-> generateId("function", kept[k].name, <<>>),
                 type |-> "calls"]]
        ELSE <<>>

\* /struct|enum|trait\s+([a-zA-Z_][a-zA-Z0-9_]*)(?:<[^>]*>)?/ at i, kw the keyword
KwMatchAt(code, i, kw) ==
    LET p2 == SkipWs(code, i + Len(kw))
        p3 == IdentEnd(code, p2)
    IN  IF LitAt(code, i, kw) /\ p2 > i + Len(kw) /\ p3 # 0
        THEN [ok |-> TRUE, index |-> i, name |-> Sub(code, p2, p3),
              end |-> GenericEnd(code, p3)]
        ELSE NoMatch

\* /mod\s+([a-zA-Z_][a-zA-Z0-9_]*)/ at i
ModMatchAt(code, i) ==
    LET p2 == SkipWs(code, i + 3)
        p3 == IdentEnd(code, p2)
    IN  IF LitAt(code, i, KwMod) /\ p2 > i + 3 /\ p3 # 0
        THEN [ok |-> TRUE, index |-> i, name |-> Sub(code, p2, p3), end |-> p3]
        ELSE NoMatch

\* /use\s+([^;]+);/ at i
UseMatchAt(code, i) ==
    LET p2 == SkipWs(code, i + 3)
        semi == IndexOf(code, <<";">>, p2)
    IN  IF LitAt(code, i, KwUse) /\ p2 > i + 3 /\ semi # 0
        THEN IF semi > p2
             THEN [ok |-> TRUE, index |-> i, name |-> Sub(code, p2, semi), end |-> semi + 1]
             ELSE IF p2 > i + 4
             THEN [ok |-> TRUE, index |-> i, name |-> Sub(code, p2 - 1, p2), end |-> p2 + 1]
             ELSE NoMatch
        ELSE NoMatch

\* /impl(?:<[^>]*>)?\s+(?:([a-zA-Z_][a-zA-Z0-9_]*)(?:<[^>]*>)?\s+for\s+)?
\*  ([a-zA-Z_][a-zA-Z0-9_]*)(?:<[^>]*>)?/ at i; trait is <<>> when group 1 is unset
ImplMatchAt(code, i) ==
    LET q1 == GenericEnd(code, i + 4)
        q2 == SkipWs(code, q1)
        t1 == IdentEnd(code, q2)
        t2 == GenericEnd(code, t1)
        t3 == SkipWs(code, t2)
        t4 == SkipWs(code, t3 + 3)
        t5 == IdentEnd(code, t4)
        withTrait == /\ t3 > t2
                     /\ LitAt(code, t3, KwFor)
                     /\ t4 > t3 + 3
                     /\ t5 # 0
    IN  IF LitAt(code, i, KwImpl) /\ q2 > q1 /\ t1 # 0
        THEN IF withTrait
             THEN [ok |-> TRUE, index |-> i, trait |-> Sub(code, q2, t1),
                   type |-> Sub(code, t4, t5), end |-> GenericEnd(code, t5)]
             ELSE [ok |-> TRUE, index |-> i, trait |-> <<>>,
                   type |-> Sub(code, q2, t1), end |-> t2]
        ELSE NoMatch

\* the file a node was found in: its directory (segments below the project
\* root) and its base name without extension
FileOf(f) == [dir |-> f.dir, stem |-> f.stem]

\* parseRustFile: {nodes, dependencies} of one file
parseRustFile(f) ==
    LET code == f.code
        moduleName == f.stem
        Node(type, name, vis) ==
            [id |-> generateId(type, name, moduleName), type |-> type, name |-> name,
             path |-> moduleName, file |-> FileOf(f), visibility |-> vis]
        fns == ExecAll([i \in 1..Len(code) |-> FunctionMatchAt(code, i)], Len(code), 1)
        structs == ExecAll([i \in 1..Len(code) |-> KwMatchAt(code, i, KwStruct)], Len(code), 1)
        enums == ExecAll([i \in 1..Len(code) |-> KwMatchAt(code, i, KwEnum)], Len(code), 1)
        traits == ExecAll([i \in 1..Len(code) |-> KwMatchAt(code, i, KwTrait)], Len(code), 1)
        impls == ExecAll([i \in 1..Len(code) |-> ImplMatchAt(code, i)], Len(code), 1)
        mods == ExecAll([i \in 1..Len(code) |-> ModMatchAt(code, i)], Len(code), 1)
        uses == ExecAll([i \in 1..Len(code) |-> UseMatchAt(code, i)], Len(code), 1)
        implName(m) == IF m.trait # <<>>
                       THEN KwImpl \o <<" ">> \o m.trait \o <<" ">> \o KwFor \o <<" ">> \o m.type
                       ELSE KwImpl \o <<" ">> \o m.type
        Plain(ms, type) ==
            [k \in 1..Len(ms) |-> Node(type, ms[k].name, Visibility(code, ms[k].index))]
        traitImpls == SelectSeq(impls, LAMBDA m : m.trait # <<>>)
    IN  IF ~f.readable THEN [nodes |-> <<>>, dependencies |-> <<>>]
        ELSE
        [nodes |->
            Plain(fns, "function") \o Plain(structs, "struct") \o Plain(enums, "enum")
            \o Plain(traits, "trait")
            \o [k \in 1..Len(impls) |-> Node("impl", implName(impls[k]), "none")]
            \o Plain(mods, "module")
            \o [k \in 1..Len(uses) |-> Node("use", uses[k].name, "none")],
         dependencies |->
            Flatten([k \in 1..Len(fns) |->
                RustCalls(code, fns[k], generateId("function", fns[k].name, moduleName))])
            \o [k \in 1..Len(traitImpls) |->
                [source |-> generateId("struct", traitImpls[k].type, moduleName),
                 target |-> generateId("trait", traitImpls[k].trait, moduleName),
                 type |-> "implements"]]]

\* ModulePath without the file's own name: the directory alone
ModulePathOfDirectory(file) == Join(file.dir, ColonColon)

\* lines 254-258: path.relative(projectPath, node.file) with the extension
\* removed, a leading "src/" dropped and every "/" turned into "::"
ModulePath(file) ==
    LET rel == Join(file.dir \o <<file.stem>>, <<"/">>)
        noSrc == IF LitAt(rel, 1, <<"s", "r", "c", "/">>)
                 THEN Sub(rel, 5, Len(rel) + 1) ELSE rel
    IN  Join(Split(noSrc, <<"/">>), ColonColon)

\* lines 252-264: every node gets its full path
PostProcess(nodes) ==
    [k \in 1..Len(nodes) |->
        [nodes[k] EXCEPT !.path =
            IF ModulePath(nodes[k].file) # <<>>
            THEN ModulePath(nodes[k].file) \o ColonColon \o nodes[k].name
            ELSE nodes[k].name]]

\* dep.type.replace('calls', 'function').replace('implements', 'trait')
\*   .replace('uses', 'use').replace('contains', 'module').replace('extends', 'struct')
TargetType(depType) ==
    CASE depType = "calls" -> "function"
      [] depType = "implements" -> "trait"
      [] depType = "uses" -> "use"
      [] depType = "contains" -> "module"
      [] depType = "extends" -> "struct"
      [] OTHER -> depType

\* dep.target.split(':').pop()
TargetName(target) ==
    LET parts == Split(target, <<":">>) IN parts[Len(parts)]

\* Array.prototype.find, hits being the positions that pass: the first of
\* them, 0 when none
FindIndex(hits) == IF hits = {} THEN 0 ELSE Min(hits)

\* TargetCandidate taking the last node of the wanted type and name
TargetCandidateLast(nodes, dep) ==
    LET hits == {k \in 1..Len(nodes) :
                    nodes[k].type = TargetType(dep.type)
                    /\ nodes[k].name = TargetName(dep.target)}
    IN  IF hits = {} THEN 0 ELSE Max(hits)

\* lines 270-277: the first node of the wanted type and name
TargetCandidate(nodes, dep) ==
    FindIndex({k \in 1..Len(nodes) :
                  /\ nodes[k].type = TargetType(dep.type)
                  /\ nodes[k].name = TargetName(dep.target)})

\* ResolveDependencies keeping every dependency as it was parsed
ResolveDependenciesKeepAll(nodes, deps) == deps

\* lines 267-286: dependencies with a source node and a target candidate are
\* kept, their target set to the candidate's id; the others are dropped
ResolveDependencies(nodes, deps) ==
    LET Keep(dep) == /\ FindIndex({k \in 1..Len(nodes) : nodes[k].id = dep.source}) # 0
                     /\ TargetCandidate(nodes, dep) # 0
        kept == SelectSeq(deps, Keep)
    IN  [k \in 1..Len(kept) |->
            [kept[k] EXCEPT !.target = nodes[TargetCandidate(nodes, kept[k])].id]]

\* nodeSize[node.type] || 5
RustNodeSize(type) ==
    CASE type = "function" -> 5 [] type = "struct" -> 8 [] type = "enum" -> 7
      [] type = "trait" -> 9 [] type = "impl" -> 6 [] type = "module" -> 10
      [] type = "constant" -> 4 [] type = "macro" -> 6 [] type = "use" -> 3
      [] OTHER -> 5

\* nodeColors[node.type] || '#9E9E9E'
RustNodeColor(type) ==
    CASE type = "function" -> "#4285F4" [] type = "struct" -> "#EA4335"
      [] type = "enum" -> "#FBBC05" [] type = "trait" -> "#34A853"
      [] type = "impl" -> "#9C27B0" [] type = "module" -> "#FF9800"
      [] type = "constant" -> "#795548" [] type = "macro" -> "#607D8B"
      [] type = "use" -> "#9E9E9E"
      [] OTHER -> "#9E9E9E"

\* LinkValue with the weight ignored
LinkValueOne(dep) == 1

\* dep.weight || 1: the weight when the edge has one that is not 0, else 1
LinkValue(dep) ==
    IF "weight" \in DOMAIN dep /\ dep.weight # 0 THEN dep.weight ELSE 1

GraphNode(id, name, type, val, color, group, path, file) ==
    [id |-> id, name |-> name, type |-> type, val |-> val, color |-> color,
     group |-> group, path |-> path, file |-> file]

\* convertToGraphData of rust-parser-simple
convertToGraphData(rustProject) ==
    [kind |-> "graph",
     nodes |-> [k \in 1..Len(rustProject.nodes) |->
        LET node == rustProject.nodes[k]
        IN  GraphNode(node.id, node.name, node.type, RustNodeSize(node.type),
                      RustNodeColor(node.type), Split(node.path, ColonColon)[1],
                      node.path, node.file)],
     links |-> [k \in 1..Len(rustProject.dependencies) |->
        LET dep == rustProject.dependencies[k]
        IN  [source |-> dep.source, target |-> dep.target, type |-> dep.type,
             value |-> LinkValue(dep)]]]

(***************************************************************************)
(* View transforms of the analysis route                                   *)
(***************************************************************************)
\* modules[p] is set
HasModule(modules, p) == \E k \in 1..Len(modules) : modules[k].path = p

ModuleIndex(modules, p) == CHOOSE k \in 1..Len(modules) : modules[k].path = p

\* modules[p].children.push(child)
PushChild(modules, p, child) ==
    [modules EXCEPT ![ModuleIndex(modules, p)].children = Append(@, child)]

\* a child of a tree node: a module of the modules table (held by reference,
\* its children are those of the table entry) or a copy of a graph node
ModuleChild(m) ==
    [isModule |-> TRUE, id |-> m.id, name |-> m.name, type |-> m.type, path |-> m.path]

LeafChild(node) ==
    [isModule |-> FALSE, id |-> node.id, name |-> node.name, type |-> node.type,
     path |-> node.path]

\* lines 154-174: the modules of the path prefixes from part i on
RECURSIVE AddPrefixes(_, _, _, _)
AddPrefixes(modules, pathParts, i, currentPath) ==
    IF i > Len(pathParts) THEN modules
    ELSE
    LET part == pathParts[i]
        newPath == IF currentPath # <<>> THEN currentPath \o ColonColon \o part ELSE part
        entry == [id |-> <<"module", ":">> \o newPath, name |-> part, path |-> newPath,
                  type |-> "module", children |-> <<>>]
        added == Append(modules, entry)
        next == IF HasModule(modules, newPath) THEN modules
                ELSE IF currentPath # <<>> /\ HasModule(added, currentPath)
                THEN PushChild(added, currentPath, ModuleChild(entry))
                ELSE added
    IN  AddPrefixes(next, pathParts, i + 1, newPath)

\* lines 176-186: a node that is no module goes under the module of its
\* path up to the last "::"
AddLeaf(modules, node) ==
    LET modulePath == Sub(node.path, 1, LastIndexOf(node.path, ColonColon))
    IN  IF node.type # "module" /\ node.path # <<>> /\ HasModule(modules, modulePath)
        THEN PushChild(modules, modulePath, LeafChild(node))
        ELSE modules

\* lines 150-187: the loop over the nodes, from node k on
RECURSIVE GroupNodes(_, _, _)
GroupNodes(modules, nodes, k) ==
    IF k > Len(nodes) THEN modules
    ELSE GroupNodes(
            AddLeaf(AddPrefixes(modules, Split(nodes[k].path, ColonColon), 1, <<>>),
                    nodes[k]),
            nodes, k + 1)

\* convertToHierarchical: the modules table is the heap of tree nodes, the
\* root's children are the modules whose path has one part
convertToHierarchical(g) ==
    LET modules == GroupNodes(<<>>, g.nodes, 1)
        roots == SelectSeq(modules, LAMBDA m : Len(Split(m.path, ColonColon)) = 1)
    IN  [kind |-> "tree", name |-> "root",
         children |-> [k \in 1..Len(roots) |-> ModuleChild(roots[k])],
         modules |-> modules]

\* moduleMap.set(key, value)
MapSet(map, key, value) ==
    IF \E k \in 1..Len(map) : map[k].key = key
    THEN [k \in 1..Len(map) |-> IF map[k].key = key THEN [map[k] EXCEPT !.value = value]
                                ELSE map[k]]
    ELSE Append(map, [key |-> key, value |-> value])

MapHas(map, key) == \E k \in 1..Len(map) : map[k].key = key

\* moduleMap.get(key), for a key of the map
MapGet(map, key) == map[CHOOSE k \in 1..Len(map) : map[k].key = key].value

\* lines 208-215: node id -> first part of the node's path
RECURSIVE BuildModuleMap(_, _, _)
BuildModuleMap(map, nodes, k) ==
    IF k > Len(nodes) THEN map
    ELSE BuildModuleMap(
            IF nodes[k].path # <<>>
            THEN MapSet(map, nodes[k].id, Split(nodes[k].path, ColonColon)[1])
            ELSE map,
            nodes, k + 1)

\* sourceModule && ...: the module of an id, when it has one that is not ''
Truthy(map, id) == MapHas(map, id) /\ MapGet(map, id) # <<>>

\* lines 218-239: the loop over the links, from link k on
RECURSIVE BuildModuleLinks(_, _, _, _)
BuildModuleLinks(moduleLinks, map, links, k) ==
    IF k > Len(links) THEN moduleLinks
    ELSE
    LET link == links[k]
        sourceModule == MapGet(map, link.source)
        targetModule == MapGet(map, link.target)
        Same(l) == l.source = sourceModule /\ l.target = targetModule
        next ==
            IF Truthy(map, link.source) /\ Truthy(map, link.target)
               /\ sourceModule # targetModule
            THEN IF \E j \in 1..Len(moduleLinks) : Same(moduleLinks[j])
                 THEN LET e == FindIndex({j \in 1..Len(moduleLinks) :
                                              Same(moduleLinks[j])})
                      IN  [moduleLinks EXCEPT ![e].value = @ + 1]
                 ELSE Append(moduleLinks,
                             [source |-> sourceModule, target |-> targetModule,
                              type |-> "contains", value |-> 1])
            ELSE moduleLinks
    IN  BuildModuleLinks(next, map, links, k + 1)

\* Array.from(new Set(values)): the values in order, each once
RECURSIVE Unique(_)
Unique(values) ==
    IF Len(values) = 0 THEN <<>>
    ELSE LET front == Unique(SubSeq(values, 1, Len(values) - 1))
             last == values[Len(values)]
         IN  IF \E k \in 1..Len(front) : front[k] = last THEN front
             ELSE Append(front, last)

\* filterModuleDependencies with a link found again left at value 1
filterModuleDependenciesNoCount(g) ==
    LET moduleMap == BuildModuleMap(<<>>, g.nodes, 1)
        uniqueModules == Unique([k \in 1..Len(moduleMap) |-> moduleMap[k].value])
        moduleLinks == BuildModuleLinks(<<>>, moduleMap, g.links, 1)
    IN  [kind |-> "graph",
         nodes |-> [k \in 1..Len(uniqueModules) |->
                      [id |-> uniqueModules[k], name |-> uniqueModules[k],
                       type |-> "module", val |-> 10, color |-> "#FF9800"]],
         links |-> [k \in 1..Len(moduleLinks) |-> [moduleLinks[k] EXCEPT !.value = 1]]]

\* filterModuleDependencies
filterModuleDependencies(g) ==
    LET moduleMap == BuildModuleMap(<<>>, g.nodes, 1)
        uniqueModules == Unique([k \in 1..Len(moduleMap) |-> moduleMap[k].value])
    IN  [kind |-> "graph",
         nodes |-> [k \in 1..Len(uniqueModules) |->
                      [id |-> uniqueModules[k], name |-> uniqueModules[k],
                       type |-> "module", val |-> 10, color |-> "#FF9800"]],
         links |-> BuildModuleLinks(<<>>, moduleMap, g.links, 1)]

\* filterCallGraph with the links checked against the function nodes
filterCallGraphValidated(g) ==
    LET functionNodes == SelectSeq(g.nodes, LAMBDA node : node.type = "function")
        Has(id) == \E k \in 1..Len(functionNodes) : functionNodes[k].id = id
    IN  [kind |-> "graph",
         nodes |-> functionNodes,
         links |-> SelectSeq(g.links, LAMBDA link :
                      link.type = "calls" /\ Has(link.source) /\ Has(link.target))]

\* filterCallGraph
filterCallGraph(g) ==
    [kind |-> "graph",
     nodes |-> SelectSeq(g.nodes, LAMBDA node : node.type = "function"),
     links |-> SelectSeq(g.links, LAMBDA link : link.type = "calls")]

\* lines 40-56: the view data of a graph
ViewData(v, g) ==
    CASE v = "hierarchical" -> convertToHierarchical(g)
      [] v = "module-dependency" -> filterModuleDependencies(g)
      [] v = "call-graph" -> filterCallGraph(g)
      [] OTHER -> g

(***************************************************************************)
(* Rust projects: the files findRustFiles returns, in the order it returns *)
(* them                                                                    *)
(***************************************************************************)
\* the most files of a project
MaxFiles == 2

SegModA == <<"m", "o", "d", "_", "a">>

SegModB == <<"m", "o", "d", "_", "b">>

SegSrc == <<"s", "r", "c">>

StemFile1 == <<"f", "i", "l", "e", "1">>

StemFile2 == <<"f", "i", "l", "e", "2">>

StemMain == <<"m", "a", "i", "n">>

\* pub fn a() { b(); }\nfn b() {}\n
RsTextCallB ==
    <<"p", "u", "b", " ", "f", "n", " ", "a", "(", ")", " ", "{", " ", "b",
      "(", ")", ";", " ", "}", "\n", "f", "n", " ", "b", "(", ")", " ", "{",
      "}", "\n">>

\* fn b() {}\n
RsTextB ==
    <<"f", "n", " ", "b", "(", ")", " ", "{", "}", "\n">>

\* fn a() { c(); }\n
RsTextCallC ==
    <<"f", "n", " ", "a", "(", ")", " ", "{", " ", "c", "(", ")", ";", " ",
      "}", "\n">>

\* struct S;\nimpl T for S {}\n
RsTextImpl ==
    <<"s", "t", "r", "u", "c", "t", " ", "S", ";", "\n", "i", "m", "p", "l",
      " ", "T", " ", "f", "o", "r", " ", "S", " ", "{", "}", "\n">>

\* pub trait T {}\nmod m;\nuse a::b;\n
RsTextTrait ==
    <<"p", "u", "b", " ", "t", "r", "a", "i", "t", " ", "T", " ", "{", "}",
      "\n", "m", "o", "d", " ", "m", ";", "\n", "u", "s", "e", " ", "a", ":",
      ":", "b", ";", "\n">>

\* fn a() { if x { b(); } c(); }\nfn c() {}\n
RsTextNested ==
    <<"f", "n", " ", "a", "(", ")", " ", "{", " ", "i", "f", " ", "x", " ",
      "{", " ", "b", "(", ")", ";", " ", "}", " ", "c", "(", ")", ";", " ",
      "}", "\n", "f", "n", " ", "c", "(", ")", " ", "{", "}", "\n">>

RustTexts == {RsTextCallB, RsTextB, RsTextCallC, RsTextImpl, RsTextTrait, RsTextNested}

\* mod_a/file1.rs, mod_a/mod_b/file2.rs, mod_b/file1.rs, src/main.rs
RustLocations ==
    {[dir |-> <<SegModA>>, stem |-> StemFile1],
     [dir |-> <<SegModA, SegModB>>, stem |-> StemFile2],
     [dir |-> <<SegModB>>, stem |-> StemFile1],
     [dir |-> <<SegSrc>>, stem |-> StemMain]}

SourceFile(loc, code, readable) ==
    [dir |-> loc.dir, stem |-> loc.stem, code |-> code, readable |-> readable]

\* every text at every place, and one file that cannot be read
RustFilePool ==
    {SourceFile(loc, code, TRUE) : loc \in RustLocations, code \in RustTexts}
    \cup {SourceFile([dir |-> <<SegSrc>>, stem |-> StemMain], RsTextCallB, FALSE)}

\* the file lists of at most MaxFiles files, no place twice
Projects(pool) ==
    {fs \in UNION {[1..n -> pool] : n \in 0..MaxFiles} :
        \A i, j \in 1..Len(fs) : i # j => FileOf(fs[i]) # FileOf(fs[j])}

\* no page open, no function applied
NoPage == [kind |-> "none"]

NoInput == [kind |-> "none"]

NoOutput == [kind |-> "none"]

\* no project directory on disk, no artifacts stored, no response sent
NoDirectory == [kind |-> "none"]

NoStore == [kind |-> "none"]

NoBodies == [kind |-> "none"]

NoProject == [kind |-> "none"]

NoData == [kind |-> "none"]

Project(nodes, dependencies) ==
    [kind |-> "project", nodes |-> nodes, dependencies |-> dependencies]

InitRust ==
    /\ page = NoPage
    /\ input = NoInput
    /\ output = NoOutput
    /\ root = NoDirectory
    /\ store = NoStore
    /\ bodies = NoBodies
    /\ files \in Projects(RustFilePool)
    /\ idx = 1
    /\ pc = "parse"
    /\ allNodes = <<>>
    /\ allDependencies = <<>>
    /\ project = NoProject
    /\ graphData = NoData
    /\ view = "none"
    /\ viewData = NoData

\* parseRustProject, lines 245-249: one turn of the loop over the files
RustParseFile ==
    /\ pc = "parse"
    /\ idx <= Len(files)
    /\ allNodes' = allNodes \o parseRustFile(files[idx]).nodes
    /\ allDependencies' = allDependencies \o parseRustFile(files[idx]).dependencies
    /\ idx' = idx + 1
    /\ UNCHANGED <<root, store, bodies, page, input, output>>
    /\ UNCHANGED <<files, pc, project, graphData, view, viewData>>

\* parseRustProject, lines 251-264
RustPostProcess ==
    /\ pc = "parse"
    /\ idx > Len(files)
    /\ allNodes' = PostProcess(allNodes)
    /\ pc' = "resolve"
    /\ UNCHANGED <<root, store, bodies, page, input, output>>
    /\ UNCHANGED <<files, idx, allDependencies, project, graphData, view, viewData>>

\* parseRustProject, lines 266-295
RustResolve ==
    /\ pc = "resolve"
    /\ allDependencies' = ResolveDependencies(allNodes, allDependencies)
    /\ project' = Project(allNodes, allDependencies')
    /\ pc' = "project"
    /\ UNCHANGED <<root, store, bodies, page, input, output>>
    /\ UNCHANGED <<files, idx, allNodes, graphData, view, viewData>>

\* the project becomes graph-data.json
RustConvertToGraphData ==
    /\ pc = "project"
    /\ graphData' = convertToGraphData(project)
    /\ pc' = "graph"
    /\ UNCHANGED <<root, store, bodies, page, input, output>>
    /\ UNCHANGED <<files, idx, allNodes, allDependencies, project, view, viewData>>

\* analysis route, lines 36-61: the view data of graph-data.json
Analyze(v) ==
    /\ pc = "graph"
    /\ view' = v
    /\ viewData' = ViewData(v, graphData)
    /\ pc' = "view"
    /\ UNCHANGED <<root, store, bodies, page, input, output>>
    /\ UNCHANGED <<files, idx, allNodes, allDependencies, project, graphData>>

Flat == Analyze("3d-force")

Hierarchical == Analyze("hierarchical")

ModuleDependency == Analyze("module-dependency")

CallGraph == Analyze("call-graph")

NextRust ==
    \/ RustParseFile
    \/ RustPostProcess
    \/ RustResolve
    \/ RustConvertToGraphData
    \/ Flat
    \/ Hierarchical
    \/ ModuleDependency
    \/ CallGraph

SpecRust == InitRust /\ [][NextRust]_vars

(***************************************************************************)
(* Graph views: the analysis route on any graph-data.json                  *)
(***************************************************************************)
\* the most nodes and the most links of a graph
MaxNodes == 2

MaxLinks == 2

DigitChars == <<"1", "2", "3", "4", "5", "6", "7", "8", "9">>

\* the id of the k-th node of a graph: ids are unique within a graph
NodeId(k) == <<"n", DigitChars[k]>>

\* an id no node has
DanglingId == <<"z", "z">>

\* type and path of a node: a::f and b::g (functions of two modules), a::m
\* (a declared module), p.q (a dotted Python path) and no path
NodeShapes ==
    {[type |-> "function", path |-> <<"a", ":", ":", "f">>],
     [type |-> "function", path |-> <<"b", ":", ":", "g">>],
     [type |-> "module", path |-> <<"a", ":", ":", "m">>],
     [type |-> "class", path |-> <<"p", ".", "q">>],
     [type |-> "struct", path |-> <<>>]}

LinkPool ==
    {[source |-> NodeId(1), target |-> NodeId(2), type |-> "calls", value |-> 1],
     [source |-> NodeId(1), target |-> NodeId(2), type |-> "uses", value |-> 1],
     [source |-> NodeId(2), target |-> NodeId(1), type |-> "calls", value |-> 1],
     [source |-> NodeId(1), target |-> NodeId(1), type |-> "calls", value |-> 1],
     [source |-> NodeId(1), target |-> DanglingId, type |-> "calls", value |-> 1]}

NoFile == [dir |-> <<>>, stem |-> <<>>]

GraphPool ==
    {[kind |-> "graph",
      nodes |-> [k \in 1..Len(shapes) |->
                    GraphNode(NodeId(k), <<"x">>, shapes[k].type, 5, "#9E9E9E",
                              Split(shapes[k].path, ColonColon)[1], shapes[k].path,
                              NoFile)],
      links |-> links] :
        shapes \in UNION {[1..n -> NodeShapes] : n \in 0..MaxNodes},
        links \in UNION {[1..n -> LinkPool] : n \in 0..MaxLinks}}

InitView ==
    /\ page = NoPage
    /\ input = NoInput
    /\ output = NoOutput
    /\ root = NoDirectory
    /\ store = NoStore
    /\ bodies = NoBodies
    /\ files = <<>>
    /\ idx = 1
    /\ pc = "graph"
    /\ allNodes = <<>>
    /\ allDependencies = <<>>
    /\ project = NoProject
    /\ graphData \in GraphPool
    /\ view = "none"
    /\ viewData = NoData

NextView ==
    \/ Flat
    \/ Hierarchical
    \/ ModuleDependency
    \/ CallGraph

SpecView == InitView /\ [][NextView]_vars

(***************************************************************************)
(* Python parser (python-parser)                                           *)
(***************************************************************************)
KwClass == <<"c", "l", "a", "s", "s">>

KwDef == <<"d", "e", "f">>

KwFrom == <<"f", "r", "o", "m">>

KwImport == <<"i", "m", "p", "o", "r", "t">>

KwSelfDot == <<"s", "e", "l", "f", ".">>

KwObject == <<"o", "b", "j", "e", "c", "t">>

\* ['if', 'while', 'for', 'print', 'len', 'str', 'int', 'float']
PythonKeywords ==
    {<<"i", "f">>, <<"w", "h", "i", "l", "e">>, KwFor, <<"p", "r", "i", "n", "t">>,
     <<"l", "e", "n">>, <<"s", "t", "r">>, <<"i", "n", "t">>,
     <<"f", "l", "o", "a", "t">>}

\* ^ under the m flag
IsLineStart(code, i) == i = 1 \/ (i - 1 <= Len(code) /\ code[i - 1] = "\n")

TrimRight(s) == SubSeq(s, 1, Max({0} \cup {k \in 1..Len(s) : ~IsWs(s[k])}))

Trim(s) == LET r == TrimRight(s) IN Sub(r, SkipWs(r, 1), Len(r) + 1)

\* line.match(/^(\s*)/)[1].length
Indent(line) == SkipWs(line, 1) - 1

\* findClassEndIndex and findFunctionEndIndex after their first loop: the end
\* of the text before the first line from lineIndex on that is not blank, is
\* no comment and is indented no deeper than indentLevel
BlockEnd(code, startIndex, lines, indentLevel, lineIndex) ==
    LET ends == {i \in lineIndex..Len(lines) :
                    /\ Len(TrimRight(lines[i])) > 0
                    /\ Indent(TrimRight(lines[i])) <= indentLevel
                    /\ ~LitAt(Trim(lines[i]), 1, <<"#">>)}
    IN  IF ends = {} THEN Len(code) + 1
        ELSE startIndex + Len(Join(SubSeq(lines, 1, Min(ends) - 1), <<"\n">>))

\* the first loop, decl being the lines that start with the keyword: the
\* indentation of the first of them and the line after it
HeaderEnd(code, startIndex, lines, decl) ==
    IF decl = {} THEN BlockEnd(code, startIndex, lines, -1, 1)
    ELSE BlockEnd(code, startIndex, lines, Indent(lines[Min(decl)]), Min(decl) + 1)

HeaderLines(lines, keyword) ==
    {i \in 1..Len(lines) : LitAt(Trim(lines[i]), 1, keyword)}

LinesEnd(code, startIndex, lines, keyword) ==
    HeaderEnd(code, startIndex, lines, HeaderLines(lines, keyword))

\* findClassEndIndex and findFunctionEndIndex, keyword being 'class ' or 'def '
FindEndIndex(code, startIndex, keyword) ==
    LinesEnd(code, startIndex, Split(Sub(code, startIndex, Len(code) + 1), <<"\n">>),
             keyword)

findClassEndIndex(code, startIndex) == FindEndIndex(code, startIndex, KwClass \o <<" ">>)

findFunctionEndIndex(code, startIndex) == FindEndIndex(code, startIndex, KwDef \o <<" ">>)

\* /^\s*class\s+([a-zA-Z_][a-zA-Z0-9_]*)\s*(?:\(([^)]*)\))?:/gm at i
ClassMatchAt(code, i) ==
    LET p1 == SkipWs(code, i)
        p2 == SkipWs(code, p1 + 5)
        p3 == IdentEnd(code, p2)
        p4 == SkipWs(code, p3)
        close == IndexOf(code, <<")">>, p4 + 1)
    IN  IF /\ IsLineStart(code, i)
           /\ LitAt(code, p1, KwClass)
           /\ p2 > p1 + 5
           /\ p3 # 0
           /\ p4 <= Len(code)
        THEN IF code[p4] = "(" /\ close # 0 /\ LitAt(code, close + 1, <<":">>)
             THEN [ok |-> TRUE, index |-> i, name |-> Sub(code, p2, p3),
                   parents |-> Sub(code, p4 + 1, close), end |-> close + 2]
             ELSE IF code[p4] = ":"
             THEN [ok |-> TRUE, index |-> i, name |-> Sub(code, p2, p3),
                   parents |-> <<>>, end |-> p4 + 1]
             ELSE NoMatch
        ELSE NoMatch

\* def\s+([a-zA-Z_][a-zA-Z0-9_]*)\s*\(([^)]*)\)(?:\s*->\s*([^:]*))?\s*: with
\* def at p, for a match that starts at i
DefMatch(code, i, p) ==
    LET p2 == SkipWs(code, p + 3)
        p3 == IdentEnd(code, p2)
        p4 == SkipWs(code, p3)
        close == IndexOf(code, <<")">>, p4 + 1)
        p5 == SkipWs(code, close + 1)
        colon == IndexOf(code, <<":">>, p5 + 2)
    IN  IF /\ LitAt(code, p, KwDef)
           /\ p2 > p + 3
           /\ p3 # 0
           /\ LitAt(code, p4, <<"(">>)
           /\ close # 0
        THEN IF LitAt(code, p5, KwArrow) /\ colon # 0
             THEN [ok |-> TRUE, index |-> i, name |-> Sub(code, p2, p3), end |-> colon + 1]
             ELSE IF LitAt(code, p5, <<":">>)
             THEN [ok |-> TRUE, index |-> i, name |-> Sub(code, p2, p3), end |-> p5 + 1]
             ELSE NoMatch
        ELSE NoMatch

\* functionRegex, /^\s*def.../gm at i
FunctionDefMatchAt(code, i) ==
    IF IsLineStart(code, i) THEN DefMatch(code, i, SkipWs(code, i)) ELSE NoMatch

\* methodRegex, /\n\s+def.../g at i
MethodMatchAt(classBody, i) ==
    IF classBody[i] = "\n" /\ SkipWs(classBody, i + 1) > i + 1
    THEN DefMatch(classBody, i, SkipWs(classBody, i + 1))
    ELSE NoMatch

\* /(?:self\.)?([a-zA-Z_][a-zA-Z0-9_]*)\s*\(/ at i
MethodCallMatchAt(body, i) ==
    IF LitAt(body, i, KwSelfDot) /\ CallMatchAt(body, i + 5).ok
    THEN [CallMatchAt(body, i + 5) EXCEPT !.index = i]
    ELSE CallMatchAt(body, i)

\* the calls of a body that are no keyword and not the function itself
PythonCalls(calls, ownName) ==
    SelectSeq(calls, LAMBDA c : c.name \notin PythonKeywords /\ c.name # ownName)

\* getPackagePath: packages are the directories that hold an __init__.py
RECURSIVE getPackagePath(_, _, _)
getPackagePath(packages, dirPath, moduleName) ==
    IF dirPath \in packages /\ Len(dirPath) > 0
    THEN LET parentDir == SubSeq(dirPath, 1, Len(dirPath) - 1)
             dirName == dirPath[Len(dirPath)]
         IN  IF parentDir \in packages
             THEN getPackagePath(packages, parentDir, dirName) \o <<".">> \o moduleName
             ELSE dirName \o <<".">> \o moduleName
    ELSE moduleName

\* item.trim().match(/(\S+)(?:\s+as\s+(\S+))?/): the first word of the item
ImportName(item) ==
    LET t == Trim(item)
        stops == {k \in 1..Len(t) : IsWs(t[k])}
    IN  IF stops = {} THEN t ELSE Sub(t, 1, Min(stops))

\* [.\w]+ from i: the position after it, 0 when none
DottedEnd(s, i) ==
    IF i > Len(s) \/ s[i] \notin (IdChar \cup {"."}) THEN 0
    ELSE Min({j \in (i + 1)..(Len(s) + 1) :
                /\ \A k \in (i + 1)..(j - 1) : s[k] \in (IdChar \cup {"."})
                /\ j = Len(s) + 1 \/ s[j] \notin (IdChar \cup {"."})})

\* the position after a greedy [^#\n]* from i
ItemsEnd(s, i) ==
    Min({j \in i..(Len(s) + 1) :
            /\ \A k \in i..(j - 1) : s[k] \notin {"#", "\n"}
            /\ j = Len(s) + 1 \/ s[j] \in {"#", "\n"}})

\* import\s+([^#\n]+) with import at p, for a match that starts at i
ImportTail(code, i, p, fromModule) ==
    LET p2 == SkipWs(code, p + 6)
    IN  IF LitAt(code, p, KwImport) /\ p2 > p + 6
        THEN IF ItemsEnd(code, p2) > p2
             THEN [ok |-> TRUE, index |-> i, fromModule |-> fromModule,
                   items |-> Sub(code, p2, ItemsEnd(code, p2)),
                   end |-> ItemsEnd(code, p2)]
             ELSE IF p2 > p + 7 /\ code[p2 - 1] # "\n"
             THEN [ok |-> TRUE, index |-> i, fromModule |-> fromModule,
                   items |-> Sub(code, p2 - 1, p2), end |-> p2]
             ELSE NoMatch
        ELSE NoMatch

\* /^\s*(?:from\s+([.\w]+)\s+)?import\s+([^#\n]+)/gm at i
ImportMatchAt(code, i) ==
    LET p1 == SkipWs(code, i)
        f2 == SkipWs(code, p1 + 4)
        f3 == DottedEnd(code, f2)
        f4 == SkipWs(code, f3)
    IN  IF ~IsLineStart(code, i) THEN NoMatch
        ELSE IF LitAt(code, p1, KwFrom) /\ f2 > p1 + 4 /\ f3 # 0 /\ f4 > f3
        THEN ImportTail(code, i, f4, Sub(code, f2, f3))
        ELSE ImportTail(code, i, p1, <<>>)

PyNode(type, name, packagePath, f) ==
    [id |-> generateId(type, name, packagePath), type |-> type, name |-> name,
     path |-> packagePath, file |-> FileOf(f)]

Dependency(source, target, type) == [source |-> source, target |-> target, type |-> type]

\* lines 63-98: the nodes and the dependencies of one import statement
ImportResult(m, moduleName, packagePath, f) ==
    LET parts == Split(m.items, <<",">>)
        importItems == [k \in 1..Len(parts) |-> ImportName(parts[k])]
    IN  [nodes |-> [k \in 1..Len(importItems) |->
                        PyNode("import", importItems[k], packagePath, f)],
         dependencies |-> [k \in 1..Len(importItems) |->
            Dependency(generateId("module", moduleName, packagePath),
                       generateId("import",
                                  IF m.fromModule # <<>>
                                  THEN m.fromModule \o <<".">> \o importItems[k]
                                  ELSE importItems[k],
                                  <<>>),
                       "imports")]]

\* the nodes, and the dependencies, of a sequence of results in order
NodesOf(results) == Flatten([k \in 1..Len(results) |-> results[k].nodes])

DependenciesOf(results) == Flatten([k \in 1..Len(results) |-> results[k].dependencies])

\* parseClassMethods, lines 345-390: the node of a method, its contains edge
\* and an edge for each of its calls
MethodOf(m, calls, packagePath, f, className, classId, methodId) ==
    [nodes |-> <<[id |-> methodId, type |-> "method", name |-> m.name,
                  path |-> packagePath, file |-> FileOf(f)]>>,
     dependencies |->
        <<Dependency(classId, methodId, "contains")>>
        \o [k \in 1..Len(calls) |->
            Dependency(methodId,
                       generateId("method", className \o <<".">> \o calls[k].name,
                                  packagePath),
                       "calls")]]

\* parseClassMethods, lines 367-374: the calls of the body of a method
MethodCalls(classBody, m, methodEndIndex) ==
    IF methodEndIndex > m.index
    THEN LET methodBody == Sub(classBody, m.index, methodEndIndex)
         IN  PythonCalls(ExecAll([i \in 1..Len(methodBody) |->
                                     MethodCallMatchAt(methodBody, i)],
                                 Len(methodBody), 1),
                         m.name)
    ELSE <<>>

\* parseClassMethods: one turn of its loop
MethodResult(classBody, m, packagePath, f, className, classId) ==
    MethodOf(m, MethodCalls(classBody, m, findFunctionEndIndex(classBody, m.index)),
             packagePath, f, className, classId,
             generateId("method", className \o <<".">> \o m.name, packagePath))

\* parseClassMethods: the results of the methods of a class body in order
parseClassMethods(classBody, packagePath, f, className, classId) ==
    LET methods == ExecAll([i \in 1..Len(classBody) |-> MethodMatchAt(classBody, i)], Len(classBody), 1)
    IN  [k \in 1..Len(methods) |->
            MethodResult(classBody, methods[k], packagePath, f, className, classId)]

\* lines 111-113 and 140: the parents of a class other than object
Inherited(parents) ==
    LET split == IF parents # <<>> THEN Split(parents, <<",">>) ELSE <<>>
    IN  SelectSeq([k \in 1..Len(split) |-> Trim(split[k])], LAMBDA c : c # KwObject)

\* lines 115-137: the class node, its inherits edges, and what its methods give
ClassOf(m, inherited, methods, packagePath, f, classId) ==
    [nodes |-> <<PyNode("class", m.name, packagePath, f)>> \o NodesOf(methods),
     dependencies |->
        [k \in 1..Len(inherited) |->
            Dependency(classId, generateId("class", inherited[k], <<>>), "inherits")]
        \o DependenciesOf(methods)]

\* lines 143-147: the methods of the class body, when the class has one
ClassMethods(code, m, classEndIndex, packagePath, f, classId) ==
    IF classEndIndex > m.index
    THEN parseClassMethods(Sub(code, m.index, classEndIndex), packagePath, f, m.name,
                           classId)
    ELSE <<>>

\* lines 104-148: the nodes and dependencies of one class
ClassResult(code, m, packagePath, f) ==
    ClassOf(m, Inherited(m.parents),
            ClassMethods(code, m, findClassEndIndex(code, m.index), packagePath, f,
                         generateId("class", m.name, packagePath)),
            packagePath, f, generateId("class", m.name, packagePath))

\* lines 159-167: the def at functionStartPos counts as inside a class when it
\* lies between the first `class <name>` of the text and the end of the class
\* found from there, for the name of a class node
InsideClass(code, classNodes, functionStartPos) ==
    \E k \in 1..Len(classNodes) :
        LET at == IndexOf(code, KwClass \o <<" ">> \o classNodes[k].name, 1)
        IN  /\ functionStartPos > at
            /\ functionStartPos < findClassEndIndex(code, at)

\* lines 212-219: the calls of the body of a function
FunctionCalls(code, m, functionEndIndex) ==
    IF functionEndIndex > m.index
    THEN LET functionBody == Sub(code, m.index, functionEndIndex)
         IN  PythonCalls(ExecAll([i \in 1..Len(functionBody) |->
                                     CallMatchAt(functionBody, i)],
                                 Len(functionBody), 1),
                         m.name)
    ELSE <<>>

\* lines 170-235: the node of a standalone function and an edge for each call
FunctionOf(m, calls, packagePath, f) ==
    [nodes |-> <<PyNode("function", m.name, packagePath, f)>>,
     dependencies |-> [k \in 1..Len(calls) |->
        Dependency(generateId("function", m.name, packagePath),
                   generateId("function", calls[k].name, <<>>), "calls")]]

FunctionResult(code, m, packagePath, f) ==
    FunctionOf(m, FunctionCalls(code, m, findFunctionEndIndex(code, m.index)),
               packagePath, f)

\* lines 60-98: the imports of the text in order
Imports(code, moduleName, packagePath, f) ==
    LET ms == ExecAll([i \in 1..Len(code) |-> ImportMatchAt(code, i)], Len(code), 1)
    IN  [k \in 1..Len(ms) |-> ImportResult(ms[k], moduleName, packagePath, f)]

\* lines 101-148: the classes of the text in order
Classes(code, packagePath, f) ==
    LET ms == ExecAll([i \in 1..Len(code) |-> ClassMatchAt(code, i)], Len(code), 1)
    IN  [k \in 1..Len(ms) |-> ClassResult(code, ms[k], packagePath, f)]

\* lines 151-237: the defs of the text that are inside no class of nodes
Functions(code, nodes, packagePath, f) ==
    LET defs == SelectSeq(ExecAll([i \in 1..Len(code) |-> FunctionDefMatchAt(code, i)], Len(code), 1),
                    LAMBDA m : ~InsideClass(code,
                                    SelectSeq(nodes, LAMBDA n : n.type = "class"),
                                    m.index))
    IN  [k \in 1..Len(defs) |-> FunctionResult(code, defs[k], packagePath, f)]

\* lines 239-243: what the three passes pushed, in the order they pushed it
FileResult(imports, classes, functions) ==
    [nodes |-> NodesOf(imports) \o NodesOf(classes) \o NodesOf(functions),
     dependencies |-> DependenciesOf(imports) \o DependenciesOf(classes)
                      \o DependenciesOf(functions)]

\* the pass over the defs sees the nodes of the imports and of the classes
WithFunctions(code, imports, classes, packagePath, f) ==
    FileResult(imports, classes,
               Functions(code, NodesOf(imports) \o NodesOf(classes), packagePath, f))

ParseCode(code, moduleName, packagePath, f) ==
    WithFunctions(code, Imports(code, moduleName, packagePath, f),
                  Classes(code, packagePath, f), packagePath, f)

\* parsePythonFile: {nodes, dependencies} of one file
parsePythonFile(f) ==
    IF ~f.readable THEN [nodes |-> <<>>, dependencies |-> <<>>]
    ELSE ParseCode(f.code, f.stem, getPackagePath(f.packages, f.dir, f.stem), f)

PythonNodeSize(type) ==
    CASE type = "function" -> 5 [] type = "class" -> 10 [] type = "method" -> 3
      [] type = "module" -> 15 [] type = "import" -> 2 [] type = "variable" -> 1
      [] type = "constant" -> 1 [] type = "decorator" -> 2

PythonNodeColor(type) ==
    CASE type = "function" -> "#4CAF50" [] type = "class" -> "#2196F3"
      [] type = "method" -> "#4FC3F7" [] type = "module" -> "#673AB7"
      [] type = "import" -> "#9E9E9E" [] type = "variable" -> "#FF9800"
      [] type = "constant" -> "#FFC107" [] type = "decorator" -> "#F44336"

\* convertToGraphData of python-parser: the group of a node is its path
pythonConvertToGraphData(pythonProject) ==
    [kind |-> "graph",
     nodes |-> [k \in 1..Len(pythonProject.nodes) |->
        LET node == pythonProject.nodes[k]
        IN  GraphNode(node.id, node.name, node.type, PythonNodeSize(node.type),
                      PythonNodeColor(node.type), node.path, node.path, node.file)],
     links |-> [k \in 1..Len(pythonProject.dependencies) |->
        LET dep == pythonProject.dependencies[k]
        IN  [source |-> dep.source, target |-> dep.target, type |-> dep.type,
             value |-> LinkValue(dep)]]]

(***************************************************************************)
(* Python projects: the files findPythonFiles returns, in the order it     *)
(* returns them                                                            *)
(***************************************************************************)
SegPkg == <<"p", "k", "g">>

SegSub == <<"s", "u", "b">>

SegLib == <<"l", "i", "b">>

StemM == <<"m">>

StemN == <<"n">>

\* class Foo:\n def bar(self):\n  pass\n
PyTextFoo ==
    <<"c", "l", "a", "s", "s", " ", "F", "o", "o", ":", "\n", " ", "d", "e",
      "f", " ", "b", "a", "r", "(", "s", "e", "l", "f", ")", ":", "\n", " ",
      " ", "p", "a", "s", "s", "\n">>

\* class FB:\n def m(s):\n  pass\nclass F:\n def n(s):\n  pass\n
PyTextPrefix ==
    <<"c", "l", "a", "s", "s", " ", "F", "B", ":", "\n", " ", "d", "e", "f",
      " ", "m", "(", "s", ")", ":", "\n", " ", " ", "p", "a", "s", "s",
      "\n", "c", "l", "a", "s", "s", " ", "F", ":", "\n", " ", "d", "e",
      "f", " ", "n", "(", "s", ")", ":", "\n", " ", " ", "p", "a", "s", "s",
      "\n">>

\* def f():\n g()\ndef g():\n pass\n
PyTextCalls ==
    <<"d", "e", "f", " ", "f", "(", ")", ":", "\n", " ", "g", "(", ")",
      "\n", "d", "e", "f", " ", "g", "(", ")", ":", "\n", " ", "p", "a",
      "s", "s", "\n">>

\* import os\nfrom a import b, c\n
PyTextImport ==
    <<"i", "m", "p", "o", "r", "t", " ", "o", "s", "\n", "f", "r", "o", "m",
      " ", "a", " ", "i", "m", "p", "o", "r", "t", " ", "b", ",", " ", "c",
      "\n">>

\* class B(A):\n def m(self):\n  self.h()\n\ndef t():\n pass\n
PyTextMixed ==
    <<"c", "l", "a", "s", "s", " ", "B", "(", "A", ")", ":", "\n", " ", "d",
      "e", "f", " ", "m", "(", "s", "e", "l", "f", ")", ":", "\n", " ", " ",
      "s", "e", "l", "f", ".", "h", "(", ")", "\n", "\n", "d", "e", "f",
      " ", "t", "(", ")", ":", "\n", " ", "p", "a", "s", "s", "\n">>

PythonTexts == {PyTextFoo, PyTextPrefix, PyTextCalls, PyTextImport, PyTextMixed}

\* m.py, pkg/m.py, pkg/sub/n.py, lib/m.py
PythonLocations ==
    {[dir |-> <<>>, stem |-> StemM],
     [dir |-> <<SegPkg>>, stem |-> StemM],
     [dir |-> <<SegPkg, SegSub>>, stem |-> StemN],
     [dir |-> <<SegLib>>, stem |-> StemM]}

\* the directories that hold an __init__.py: pkg and pkg/sub, not lib
PythonPackages == {<<SegPkg>>, <<SegPkg, SegSub>>}

PythonFile(loc, code, readable) ==
    [dir |-> loc.dir, stem |-> loc.stem, code |-> code, readable |-> readable,
     packages |-> PythonPackages]

\* every text at every place, and one file that cannot be read
PythonFilePool ==
    {PythonFile(loc, code, TRUE) : loc \in PythonLocations, code \in PythonTexts}
    \cup {PythonFile([dir |-> <<SegLib>>, stem |-> StemN], PyTextFoo, FALSE)}

InitPy ==
    /\ page = NoPage
    /\ input = NoInput
    /\ output = NoOutput
    /\ root = NoDirectory
    /\ store = NoStore
    /\ bodies = NoBodies
    /\ files \in Projects(PythonFilePool)
    /\ idx = 1
    /\ pc = "parse"
    /\ allNodes = <<>>
    /\ allDependencies = <<>>
    /\ project = NoProject
    /\ graphData = NoData
    /\ view = "none"
    /\ viewData = NoData

\* parsePythonProject, lines 420-424: one turn of the loop over the files
PyParseFile ==
    /\ pc = "parse"
    /\ idx <= Len(files)
    /\ allNodes' = allNodes \o parsePythonFile(files[idx]).nodes
    /\ allDependencies' = allDependencies \o parsePythonFile(files[idx]).dependencies
    /\ idx' = idx + 1
    /\ UNCHANGED <<root, store, bodies, page, input, output>>
    /\ UNCHANGED <<files, pc, project, graphData, view, viewData>>

\* parsePythonProject, lines 426-434: the project is returned as collected
PyReturnProject ==
    /\ pc = "parse"
    /\ idx > Len(files)
    /\ project' = Project(allNodes, allDependencies)
    /\ pc' = "project"
    /\ UNCHANGED <<root, store, bodies, page, input, output>>
    /\ UNCHANGED <<files, idx, allNodes, allDependencies, graphData, view, viewData>>

\* the project becomes graph-data.json
PyConvertToGraphData ==
    /\ pc = "project"
    /\ graphData' = pythonConvertToGraphData(project)
    /\ pc' = "graph"
    /\ UNCHANGED <<root, store, bodies, page, input, output>>
    /\ UNCHANGED <<files, idx, allNodes, allDependencies, project, view, viewData>>

\* lines 490-503: the modules of the prefixes of a path from part i on
RECURSIVE PyAddPrefixes(_, _, _, _)
PyAddPrefixes(modules, pathParts, i, currentPath) ==
    IF i > Len(pathParts) THEN modules
    ELSE
    LET part == pathParts[i]
        newPath == IF currentPath # <<>> THEN currentPath \o <<".">> \o part ELSE part
        entry == [id |-> <<"module", ":">> \o newPath, name |-> part, path |-> newPath,
                  type |-> "module", children |-> <<>>]
    IN  PyAddPrefixes(IF HasModule(modules, newPath) THEN modules
                      ELSE Append(modules, entry),
                      pathParts, i + 1, newPath)

\* lines 486-504: the loop over the nodes, from node k on
RECURSIVE PyCreateModules(_, _, _)
PyCreateModules(modules, nodes, k) ==
    IF k > Len(nodes) THEN modules
    ELSE PyCreateModules(
            PyAddPrefixes(modules, Split(nodes[k].path, <<".">>), 1, <<>>),
            nodes, k + 1)

\* lines 507-515: every module with a "." in its path goes under the module
\* of the path before the last ".", from key k of the table on
RECURSIVE PyBuildHierarchy(_, _)
PyBuildHierarchy(modules, k) ==
    IF k > Len(modules) THEN modules
    ELSE
    LET modulePath == modules[k].path
        lastDotIndex == LastIndexOf(modulePath, <<".">>)
        parentPath == Sub(modulePath, 1, lastDotIndex)
    IN  PyBuildHierarchy(
            IF lastDotIndex # 0 /\ HasModule(modules, parentPath)
            THEN PushChild(modules, parentPath, ModuleChild(modules[k]))
            ELSE modules,
            k + 1)

\* lines 519-535: a node that is no module goes under the module of its
\* path, from node k on
RECURSIVE PyAddNodes(_, _, _)
PyAddNodes(modules, nodes, k) ==
    IF k > Len(nodes) THEN modules
    ELSE PyAddNodes(
            IF nodes[k].type # "module" /\ HasModule(modules, nodes[k].path)
            THEN PushChild(modules, nodes[k].path, LeafChild(nodes[k]))
            ELSE modules,
            nodes, k + 1)

\* IsRootModule with every module taken for a root
IsRootModuleAny(modules, m) == TRUE

\* lines 538-541: the modules without a "." in the path or without the
\* module of the path before the last "."
IsRootModule(modules, m) ==
    \/ ~Includes(m.path, <<".">>)
    \/ ~HasModule(modules, Sub(m.path, 1, LastIndexOf(m.path, <<".">>)))

\* convertToHierarchicalData: the modules table is the heap of tree nodes
convertToHierarchicalData(pythonProject) ==
    LET created == PyCreateModules(<<>>, pythonProject.nodes, 1)
        modules == PyAddNodes(PyBuildHierarchy(created, 1), pythonProject.nodes, 1)
        roots == SelectSeq(modules, LAMBDA m : IsRootModule(modules, m))
    IN  [kind |-> "tree", name |-> "project",
         children |-> [k \in 1..Len(roots) |-> ModuleChild(roots[k])],
         modules |-> modules]

\* the project becomes the tree of its modules
PyConvertToHierarchicalData ==
    /\ pc = "project"
    /\ viewData' = convertToHierarchicalData(project)
    /\ pc' = "tree"
    /\ UNCHANGED <<root, store, bodies, page, input, output>>
    /\ UNCHANGED <<files, idx, allNodes, allDependencies, project, graphData, view>>

NextPy ==
    \/ PyParseFile
    \/ PyReturnProject
    \/ PyConvertToGraphData
    \/ PyConvertToHierarchicalData
    \/ Flat
    \/ Hierarchical
    \/ ModuleDependency
    \/ CallGraph

SpecPy == InitPy /\ [][NextPy]_vars

(***************************************************************************)
(* Properties                                                              *)
(***************************************************************************)
Range(s) == {s[k] : k \in 1..Len(s)}

\* the top-level module of a path: its first "::" part
TopModule(path) == Split(path, ColonColon)[1]

\* the links of g from a node of module A to a node of module B
UnderlyingEdges(g, A, B) ==
    {i \in 1..Len(g.links) :
        \E s, t \in 1..Len(g.nodes) :
            /\ g.nodes[s].id = g.links[i].source
            /\ g.nodes[t].id = g.links[i].target
            /\ g.nodes[s].path # <<>> /\ TopModule(g.nodes[s].path) = A
            /\ g.nodes[t].path # <<>> /\ TopModule(g.nodes[t].path) = B}

TopModules(g) == {TopModule(n.path) : n \in {m \in Range(g.nodes) : m.path # <<>>}}

\* the links of the view from A to B
ViewLinks(A, B) ==
    {j \in 1..Len(viewData.links) :
        viewData.links[j].source = A /\ viewData.links[j].target = B}

ChildrenOf(tree, p) == tree.modules[ModuleIndex(tree.modules, p)].children

\* the tree nodes below the module of path p
RECURSIVE DescendantsOf(_, _)
DescendantsOf(tree, p) ==
    Range(ChildrenOf(tree, p))
    \cup UNION {DescendantsOf(tree, c.path) :
                    c \in {d \in Range(ChildrenOf(tree, p)) : d.isModule}}

\* the module nodes of a tree: those reached from its root
TreeModules(tree) ==
    {c \in Range(tree.children)
           \cup UNION {DescendantsOf(tree, r.path) : r \in Range(tree.children)} :
        c.isModule}

IsPrefix(p, q) == Len(p) <= Len(q) /\ SubSeq(q, 1, Len(p)) = p

\* node n is below a module of the tree whose path is a prefix of n's path
InTree(tree, n) ==
    \E m \in TreeModules(tree) :
        /\ IsPrefix(m.path, n.path)
        /\ \E d \in DescendantsOf(tree, m.path) : d.id = n.id

\* C4: every node of the graph that has a path is in the hierarchical view,
\* below a module whose path is a prefix of its own.
C4_EveryNodeInTree ==
    (pc = "view" /\ view = "hierarchical") =>
        \A n \in Range(graphData.nodes) : n.path # <<>> => InTree(viewData, n)

\* C5: the call-graph view holds exactly the function nodes and exactly the
\* calls links of the graph, in their order; the links are not checked against
\* the nodes that remain.
C5_CallGraphFilter ==
    (pc = "view" /\ view = "call-graph") =>
        /\ viewData.nodes = SelectSeq(graphData.nodes, LAMBDA n : n.type = "function")
        /\ viewData.links = SelectSeq(graphData.links, LAMBDA l : l.type = "calls")

\* a calls link is in the view although an end of it is no node of the view
C5_Witness ==
    /\ pc = "view" /\ view = "call-graph"
    /\ \E l \in Range(viewData.links) :
        \A n \in Range(viewData.nodes) : n.id # l.target
    /\ \E n \in Range(graphData.nodes) : n.type # "function"
    /\ \E l \in Range(graphData.links) : l.type # "calls"

\* the dependencies parseRustFile extracted from file i
RawEdges(i) == Range(parseRustFile(files[i]).dependencies)

\* C2: every edge extracted from a file is in the project's edge list: an
\* edge of the same source and type to the same target name, resolved or
\* not.
C2_RawEdgesKept ==
    pc = "project" =>
        \A i \in 1..Len(files) : \A e \in RawEdges(i) :
            \E d \in Range(project.dependencies) :
                /\ d.source = e.source
                /\ d.type = e.type
                /\ TargetName(d.target) = TargetName(e.target)

\* C3: the node ids of a project are pairwise distinct.
C3_NodeIdsUnique ==
    pc = "project" =>
        \A i, j \in 1..Len(project.nodes) :
            i # j => project.nodes[i].id # project.nodes[j].id

FunctionNodes(nodes) == {n \in Range(nodes) : n.type = "function"}

CallEdges(deps) == {k \in 1..Len(deps) : deps[k].type = "calls"}

\* C6: one file holding `pub fn a() { b(); }` and `fn b() {}` gives two
\* function nodes, a public and b private, and one calls edge, from a to b.
C6_CallScenario ==
    (pc = "project" /\ Len(files) = 1 /\ files[1].code = RsTextCallB
        /\ files[1].readable) =>
        /\ Cardinality(FunctionNodes(project.nodes)) = 2
        /\ \E a, b \in FunctionNodes(project.nodes) :
            /\ a.name = <<"a">> /\ a.visibility = "public"
            /\ b.name = <<"b">> /\ b.visibility = "private"
            /\ Cardinality(CallEdges(project.dependencies)) = 1
            /\ \A k \in CallEdges(project.dependencies) :
                /\ project.dependencies[k].source = a.id
                /\ project.dependencies[k].target = b.id

\* the nodes of the project found in file i
NodesOfFile(i) == {n \in Range(project.nodes) : n.file = FileOf(files[i])}

ModA == SegModA

ModAFile1 == SegModA \o ColonColon \o StemFile1

ModAModB == SegModA \o ColonColon \o SegModB

ModAModBFile2 == SegModA \o ColonColon \o SegModB \o ColonColon \o StemFile2

\* files mod_a/file1 and mod_a/mod_b/file2, one function each, shown as a tree
TwoFilesTree ==
    /\ pc = "view" /\ view = "hierarchical"
    /\ Len(files) = 2
    /\ FileOf(files[1]) = [dir |-> <<SegModA>>, stem |-> StemFile1]
    /\ FileOf(files[2]) = [dir |-> <<SegModA, SegModB>>, stem |-> StemFile2]
    /\ \A i \in 1..2 :
        /\ Cardinality(NodesOfFile(i)) = 1
        /\ \A n \in NodesOfFile(i) : n.type = "function"

\* the leaf and the module children of the module of path p
LeafIds(tree, p) == {c.id : c \in {d \in Range(ChildrenOf(tree, p)) : ~d.isModule}}

SubModules(tree, p) == {c.path : c \in {d \in Range(ChildrenOf(tree, p)) : d.isModule}}

RootPaths(tree) == {c.path : c \in Range(tree.children)}

\* C8 as stated: the only root is mod_a, the first function is a child of
\* mod_a and the second a child of mod_a::mod_b.
C8_FunctionsUnderDirectories ==
    TwoFilesTree =>
        /\ RootPaths(viewData) = {ModA}
        /\ \A n \in NodesOfFile(1) : n.id \in LeafIds(viewData, ModA)
        /\ ModAModB \in SubModules(viewData, ModA)
        /\ \A n \in NodesOfFile(2) : n.id \in LeafIds(viewData, ModAModB)

\* C8 amended: the only root is mod_a; each file is a module of its own
\* below its directory's module, and the function is a child of the file's
\* module: the first of mod_a::file1, the second of mod_a::mod_b::file2.
C8_FunctionsUnderFileModules ==
    TwoFilesTree =>
        /\ RootPaths(viewData) = {ModA}
        /\ ModAFile1 \in SubModules(viewData, ModA)
        /\ ModAModB \in SubModules(viewData, ModA)
        /\ ModAModBFile2 \in SubModules(viewData, ModAModB)
        /\ \A n \in NodesOfFile(1) :
            /\ n.id \in LeafIds(viewData, ModAFile1)
            /\ n.id \notin LeafIds(viewData, ModA)
        /\ \A n \in NodesOfFile(2) :
            /\ n.id \in LeafIds(viewData, ModAModBFile2)
            /\ n.id \notin LeafIds(viewData, ModAModB)

C8_Witness == TwoFilesTree /\ Len(viewData.modules) > 0

\* file i declares a function named name
Declares(i, name) ==
    \E n \in Range(parseRustFile(files[i]).nodes) : n.type = "function" /\ n.name = name

\* the calls extracted from file i, of a function to another name, whose
\* target name file i declares itself
OwnCalls(i) ==
    {e \in RawEdges(i) :
        /\ e.type = "calls"
        /\ TargetName(e.target) # TargetName(e.source)
        /\ Declares(i, TargetName(e.target))}

\* the edges of the project made from the extracted edge e
Resolved(e) ==
    {d \in Range(project.dependencies) :
        /\ d.source = e.source
        /\ d.type = e.type
        /\ TargetName(d.target) = TargetName(e.target)}

FirstFunctionNamed(name) ==
    project.nodes[Min({k \in 1..Len(project.nodes) :
        project.nodes[k].type = "function" /\ project.nodes[k].name = name})]

ClassSpans(code) ==
    {[name |-> m.name, from |-> m.index, to |-> findClassEndIndex(code, m.index)] :
        m \in Range(ExecAll([i \in 1..Len(code) |-> ClassMatchAt(code, i)], Len(code), 1))}

\* the position of the def keyword of a def header
DefAt(code, m) == SkipWs(code, m.index)

\* the defs of a text that lie inside the body of a class, with that class
DefsInClass(code) ==
    {[class |-> q[1].name, name |-> q[2].name] :
        q \in {r \in ClassSpans(code) \X Range(ExecAll([i \in 1..Len(code) |-> FunctionDefMatchAt(code, i)], Len(code), 1)) :
                DefAt(code, r[2]) > r[1].from /\ DefAt(code, r[2]) < r[1].to}}

\* the names of the defs of a text that lie inside no class
TopLevelDefs(code) ==
    {m.name : m \in {d \in Range(ExecAll([i \in 1..Len(code) |-> FunctionDefMatchAt(code, i)], Len(code), 1)) :
        \A c \in ClassSpans(code) : ~(DefAt(code, d) > c.from /\ DefAt(code, d) < c.to)}}

PackagePathOf(f) == getPackagePath(f.packages, f.dir, f.stem)

\* the readable files of the project that have the package path of file i and
\* hold def d in class d.class
SameDeclaration(i, d) ==
    {j \in 1..Len(files) :
        /\ files[j].readable
        /\ PackagePathOf(files[j]) = PackagePathOf(files[i])
        /\ d \in DefsInClass(files[j].code)}

\* C7: every def inside the body of a class gives one method node of its
\* file, one contains edge from the class to the method for each file that
\* declares it, and no function node of its name in its file unless the file
\* has a def of that name outside every class.
C7_ClassDefsAreMethods ==
    pc = "project" =>
        \A i \in 1..Len(files) :
            files[i].readable =>
                \A d \in DefsInClass(files[i].code) :
                    LET classId == generateId("class", d.class, PackagePathOf(files[i]))
                        methodId == generateId("method", d.class \o <<".">> \o d.name,
                                               PackagePathOf(files[i]))
                    IN  /\ Cardinality({k \in 1..Len(project.nodes) :
                                /\ project.nodes[k].id = methodId
                                /\ project.nodes[k].type = "method"
                                /\ project.nodes[k].file = FileOf(files[i])}) = 1
                        /\ Cardinality({k \in 1..Len(project.dependencies) :
                                /\ project.dependencies[k].source = classId
                                /\ project.dependencies[k].target = methodId
                                /\ project.dependencies[k].type = "contains"})
                            = Cardinality(SameDeclaration(i, d))
                        /\ d.name \notin TopLevelDefs(files[i].code) =>
                            \A n \in Range(project.nodes) :
                                ~(/\ n.type = "function"
                                  /\ n.name = d.name
                                  /\ n.file = FileOf(files[i]))

\* C10: a calls edge from a top-level function to the name of a top-level
\* function of the same file has that function's node id as its target.
C10_CallTargetsDeclaration ==
    pc = "project" =>
        \A e \in Range(project.dependencies) :
            \A f, g \in FunctionNodes(project.nodes) :
                (/\ e.type = "calls"
                 /\ e.source = f.id
                 /\ g.file = f.file
                 /\ g.name = TargetName(e.target))
                    => e.target = g.id

\* the impl blocks of file i that name a trait
TraitImpls(i) ==
    IF files[i].readable
    THEN {m \in Range(ExecAll([j \in 1..Len(files[i].code) |->
                                  ImplMatchAt(files[i].code, j)],
                              Len(files[i].code), 1)) : m.trait # <<>>}
    ELSE {}

\* C11: every `impl Trait for Type` of a file has an implements edge from
\* Type to Trait in the project, whether or not Trait or Type is declared.
C11_ImplementsEdgeKept ==
    pc = "project" =>
        \A i \in 1..Len(files) : \A m \in TraitImpls(i) :
            \E d \in Range(project.dependencies) :
                /\ d.type = "implements"
                /\ d.source = generateId("struct", m.type, files[i].stem)
                /\ TargetName(d.target) = m.trait

\* C12: the source of every edge of a project is the id of one of its nodes.
C12_EdgeSourcesAreNodes ==
    pc = "project" =>
        \A d \in Range(project.dependencies) :
            \E n \in Range(project.nodes) : n.id = d.source

\* parseRustProject as a function of the file list it processes
parseRustProject(rustFiles) ==
    LET parsed == [k \in 1..Len(rustFiles) |-> parseRustFile(rustFiles[k])]
        nodes == PostProcess(Flatten([k \in 1..Len(parsed) |-> parsed[k].nodes]))
    IN  Project(nodes,
                ResolveDependencies(nodes,
                    Flatten([k \in 1..Len(parsed) |-> parsed[k].dependencies])))

\* the orders n files can be taken in
FileOrders(n) ==
    {p \in [1..n -> 1..n] : \A i, j \in 1..n : i # j => p[i] # p[j]}

\* C13: the set of nodes and the set of edges of the project are those of the
\* project of the same files taken in any other order.
C13_FileOrderIrrelevant ==
    pc = "project" =>
        \A p \in FileOrders(Len(files)) :
            LET other == parseRustProject([k \in 1..Len(files) |-> files[p[k]]])
            IN  /\ Range(other.nodes) = Range(project.nodes)
                /\ Range(other.dependencies) = Range(project.dependencies)

\* the first segment of a path, its segments being separated by "::" (Rust)
\* or by "." (Python)
FirstSegment(path) == Split(Split(path, ColonColon)[1], <<".">>)[1]

\* C14: in the graph of a project, val and color of a node depend on its type
\* alone, and its group is the first segment of its path.
C14_GraphNodeDecoration ==
    pc = "graph" =>
        /\ \A a, b \in Range(graphData.nodes) :
            a.type = b.type => a.val = b.val /\ a.color = b.color
        /\ \A n \in Range(graphData.nodes) : n.group = FirstSegment(n.path)

(***************************************************************************)
(* Conversions: convertToGraphData of either parser on any project         *)
(***************************************************************************)
\* the node of a project at position k of its list, of the given type
ProjectNode(k, type) ==
    [id |-> NodeId(k), type |-> type, name |-> <<"x">>,
     path |-> <<"a", ":", ":", "x">>, file |-> NoFile, visibility |-> "private"]

\* function and module are in the tables of both converters, class only in
\* the Python table
ProjectNodeTypes == {"function", "module", "class"}

\* edges without a weight and with the weights 0, 1 and 2
ProjectEdgePool ==
    {[source |-> NodeId(1), target |-> NodeId(2), type |-> "calls"],
     [source |-> NodeId(1), target |-> DanglingId, type |-> "uses"],
     [source |-> NodeId(1), target |-> NodeId(2), type |-> "calls", weight |-> 0],
     [source |-> NodeId(1), target |-> NodeId(2), type |-> "calls", weight |-> 1],
     [source |-> NodeId(2), target |-> NodeId(1), type |-> "contains", weight |-> 2]}

ProjectPool ==
    {Project([k \in 1..Len(types) |-> ProjectNode(k, types[k])], dependencies) :
        types \in UNION {[1..n -> ProjectNodeTypes] : n \in 0..MaxNodes},
        dependencies \in UNION {[1..n -> ProjectEdgePool] : n \in 0..MaxLinks}}

InitConvert ==
    /\ page = NoPage
    /\ input = NoInput
    /\ output = NoOutput
    /\ root = NoDirectory
    /\ store = NoStore
    /\ bodies = NoBodies
    /\ files = <<>>
    /\ idx = 1
    /\ pc = "project"
    /\ allNodes = <<>>
    /\ allDependencies = <<>>
    /\ project \in ProjectPool
    /\ graphData = NoData
    /\ view = "none"
    /\ viewData = NoData

NextConvert ==
    \/ RustConvertToGraphData
    \/ PyConvertToGraphData

SpecConvert == InitConvert /\ [][NextConvert]_vars

\* the graph holds the nodes and the edges of the project one for one, in
\* their order, with their id, source, target and type
OneForOne ==
    /\ Len(graphData.nodes) = Len(project.nodes)
    /\ \A k \in 1..Len(project.nodes) :
        graphData.nodes[k].id = project.nodes[k].id
    /\ Len(graphData.links) = Len(project.dependencies)
    /\ \A k \in 1..Len(project.dependencies) :
        /\ graphData.links[k].source = project.dependencies[k].source
        /\ graphData.links[k].target = project.dependencies[k].target
        /\ graphData.links[k].type = project.dependencies[k].type

PathPrefixes(path) ==
    LET parts == Split(path, <<".">>)
    IN  {Join(SubSeq(parts, 1, i), <<".">>) : i \in 1..Len(parts)}

\* how many of the children are the given child
Occurrences(children, child) ==
    Cardinality({c \in 1..Len(children) : children[c] = child})

\* C16: in the tree of a Python project every prefix of every node path has
\* exactly one module, a module with a "." in its path is exactly once a
\* child of the module of its path before the last "." and of no other, the
\* roots are exactly the modules without a ".", and every node that is no
\* module is exactly once a child of the module of its own path and of no
\* other.
C16_PythonModuleTree ==
    pc = "tree" =>
        LET modules == viewData.modules
            dotted(m) == Includes(m.path, <<".">>)
            parent(m) == Sub(m.path, 1, LastIndexOf(m.path, <<".">>))
        IN  /\ \A n \in Range(project.nodes) : \A p \in PathPrefixes(n.path) :
                Cardinality({k \in 1..Len(modules) :
                    modules[k].path = p /\ modules[k].type = "module"}) = 1
            /\ \A m \in Range(modules) :
                \E n \in Range(project.nodes) : m.path \in PathPrefixes(n.path)
            /\ \A m, over \in Range(modules) :
                dotted(m) =>
                    Occurrences(over.children, ModuleChild(m)) =
                        IF over.path = parent(m) THEN 1 ELSE 0
            /\ \A m \in Range(modules) :
                Occurrences(viewData.children, ModuleChild(m)) =
                    IF dotted(m) THEN 0 ELSE 1
            /\ Len(viewData.children) =
                Cardinality({k \in 1..Len(modules) : ~dotted(modules[k])})
            /\ \A n \in Range(project.nodes) : \A over \in Range(modules) :
                n.type # "module" =>
                    Occurrences(over.children, LeafChild(n)) =
                        IF over.path = n.path
                        THEN Cardinality({k \in 1..Len(project.nodes) :
                                LeafChild(project.nodes[k]) = LeafChild(n)})
                        ELSE 0

\* a tree with a module two levels below a root that holds a node of the
\* project
C16_Witness ==
    /\ pc = "tree"
    /\ \E m \in Range(viewData.modules) :
        /\ Len(Split(m.path, <<".">>)) = 3
        /\ \E c \in Range(m.children) : ~c.isModule

(***************************************************************************)
(* File discovery: findRustFiles and findPythonFiles on a directory tree   *)
(***************************************************************************)
MaxEntries == 2

StartsWith(s, w) == LitAt(s, 1, w)

EndsWith(s, w) == LitAt(s, Len(s) - Len(w) + 1, w)

ExtRs == <<".", "r", "s">>

ExtPy == <<".", "p", "y">>

NameNodeModules == <<"n", "o", "d", "e", "_", "m", "o", "d", "u", "l", "e", "s">>

NameTarget == <<"t", "a", "r", "g", "e", "t">>

NamePycache == <<"_", "_", "p", "y", "c", "a", "c", "h", "e", "_", "_">>

NameVenv == <<"v", "e", "n", "v">>

NameEnv == <<"e", "n", "v">>

NameDotVenv == <<".", "v", "e", "n", "v">>

NameGit == <<".", "g", "i", "t">>

NameInit == <<"_", "_", "i", "n", "i", "t", "_", "_", ".", "p", "y">>

\* a directory entry that is a file, and one that is a directory
File(name, code, readable) ==
    [isDirectory |-> FALSE, name |-> name, code |-> code, readable |-> readable]

Directory(name, entries, readable) ==
    [isDirectory |-> TRUE, name |-> name, entries |-> entries, readable |-> readable]

\* SkipRust without the target directories
SkipRustNoTarget(name) == StartsWith(name, <<".">>) \/ name = NameNodeModules

\* part_003 lines 19-23: the entries findRustFiles passes over
SkipRust(name) ==
    StartsWith(name, <<".">>) \/ name = NameNodeModules \/ name = NameTarget

\* python-parser.ts lines 19-26: the entries findPythonFiles passes over
SkipPython(name) ==
    \/ StartsWith(name, <<".">>)
    \/ name \in {NameNodeModules, NamePycache, NameVenv, NameEnv, NameDotVenv}

\* name.replace(/\.rs$/, '') and name.replace(/\.py$/, '')
WithoutExtension(name, ext) ==
    IF EndsWith(name, ext) THEN Sub(name, 1, Len(name) - Len(ext) + 1) ELSE name

\* a file as the parsers take it: the directories below the root, the name,
\* the module name and what reading it gives
FoundFile(path, entry, ext) ==
    [dir |-> path, name |-> entry.name, stem |-> WithoutExtension(entry.name, ext),
     code |-> entry.code, readable |-> entry.readable]

\* findRustFiles: the files of a directory that cannot be listed are none
RECURSIVE findRustFiles(_, _)
findRustFiles(dir, path) ==
    IF ~dir.readable THEN <<>>
    ELSE Flatten([k \in 1..Len(dir.entries) |->
            LET entry == dir.entries[k]
            IN  IF SkipRust(entry.name) THEN <<>>
                ELSE IF entry.isDirectory
                THEN findRustFiles(entry, Append(path, entry.name))
                ELSE IF EndsWith(entry.name, ExtRs)
                THEN <<FoundFile(path, entry, ExtRs)>>
                ELSE <<>>])

\* fs.existsSync(path.join(dirPath, '__init__.py')): the directories below
\* the root that hold an __init__.py
RECURSIVE PackagesOf(_, _)
PackagesOf(dir, path) ==
    (IF \E k \in 1..Len(dir.entries) : dir.entries[k].name = NameInit
     THEN {path} ELSE {})
    \cup UNION {PackagesOf(dir.entries[k], Append(path, dir.entries[k].name)) :
                k \in {j \in 1..Len(dir.entries) : dir.entries[j].isDirectory}}

\* findPythonFiles
RECURSIVE findPythonFiles(_, _, _)
findPythonFiles(dir, path, packages) ==
    IF ~dir.readable THEN <<>>
    ELSE Flatten([k \in 1..Len(dir.entries) |->
            LET entry == dir.entries[k]
            IN  IF SkipPython(entry.name) THEN <<>>
                ELSE IF entry.isDirectory
                THEN findPythonFiles(entry, Append(path, entry.name), packages)
                ELSE IF EndsWith(entry.name, ExtPy)
                THEN <<FoundFile(path, entry, ExtPy) @@ [packages |-> packages]>>
                ELSE <<>>])

\* parsePythonProject on the files found
parsePythonProject(pythonFiles) ==
    LET parsed == [k \in 1..Len(pythonFiles) |-> parsePythonFile(pythonFiles[k])]
    IN  Project(Flatten([k \in 1..Len(pythonFiles) |-> parsed[k].nodes]),
                Flatten([k \in 1..Len(pythonFiles) |-> parsed[k].dependencies]))

\* the file names of the trees
NameFile1Rs == StemFile1 \o ExtRs

NameFile2Rs == StemFile2 \o ExtRs

NameMainRs == StemMain \o ExtRs

NameHiddenRs == <<".">> \o StemFile2 \o ExtRs

NameMPy == StemM \o ExtPy

NameNPy == StemN \o ExtPy

NameHiddenPy == <<".">> \o StemN \o ExtPy

NameMPyc == StemM \o <<".", "p", "y", "c">>

\* the files of a tree: sources of both languages, one of each that cannot
\* be read, one hidden source of each, one file of another extension
FileEntries ==
    <<File(NameFile1Rs, RsTextCallB, TRUE),
     File(NameMainRs, RsTextNested, FALSE),
     File(NameHiddenRs, RsTextB, TRUE),
     File(NameMPy, PyTextFoo, TRUE),
     File(NameNPy, PyTextCalls, FALSE),
     File(NameHiddenPy, PyTextCalls, TRUE),
     File(NameMPyc, <<>>, TRUE)>>

\* the directories of a tree: plain ones, one that cannot be listed, nested
\* ones, packages, and one of every name the searches pass over
DirectoryEntries ==
    <<Directory(SegModA, <<File(NameFile1Rs, RsTextCallC, TRUE)>>, TRUE),
     Directory(SegModB, <<File(NameFile1Rs, RsTextB, TRUE),
                          File(NameMPy, PyTextCalls, TRUE)>>, FALSE),
     Directory(SegSrc,
        <<Directory(NameTarget, <<File(NameFile2Rs, RsTextB, TRUE)>>, TRUE),
          Directory(SegModB, <<File(NameFile2Rs, RsTextB, TRUE)>>, TRUE),
          File(NameMainRs, RsTextCallB, TRUE)>>, TRUE),
     Directory(SegPkg,
        <<File(NameInit, <<>>, TRUE),
          Directory(SegSub, <<File(NameInit, <<>>, TRUE),
                              File(NameNPy, PyTextFoo, TRUE)>>, TRUE),
          Directory(NameEnv, <<File(NameNPy, PyTextFoo, TRUE)>>, TRUE),
          File(NameMPy, PyTextCalls, TRUE)>>, TRUE),
     Directory(NameTarget, <<File(NameFile1Rs, RsTextB, TRUE),
                             File(NameNPy, PyTextFoo, TRUE)>>, TRUE),
     Directory(NameNodeModules, <<File(NameFile2Rs, RsTextB, TRUE),
                                  File(NameNPy, PyTextFoo, TRUE)>>, TRUE),
     Directory(NameGit, <<File(NameFile2Rs, RsTextB, TRUE),
                          File(NameNPy, PyTextFoo, TRUE)>>, TRUE),
     Directory(NamePycache, <<File(NameNPy, PyTextFoo, TRUE)>>, TRUE),
     Directory(NameVenv, <<File(NameNPy, PyTextFoo, TRUE)>>, TRUE),
     Directory(NameEnv, <<File(NameNPy, PyTextFoo, TRUE)>>, TRUE),
     Directory(NameDotVenv, <<File(NameNPy, PyTextFoo, TRUE)>>, TRUE)>>

\* the entries in the order in which a directory lists them
TreeEntries == FileEntries \o DirectoryEntries

\* the project directories: at most MaxEntries of the entries, and a root
\* that cannot be listed
DirectoryPool ==
    {Directory(<<>>, [k \in 1..Len(at) |-> TreeEntries[at[k]]], TRUE) :
        at \in {ix \in UNION {[1..n -> 1..Len(TreeEntries)] : n \in 0..MaxEntries} :
                    \A i, j \in 1..Len(ix) : i < j => ix[i] < ix[j]}}
    \cup {Directory(<<>>, <<File(NameFile1Rs, RsTextB, TRUE),
                            File(NameMPy, PyTextFoo, TRUE)>>, FALSE)}

InitFind ==
    /\ page = NoPage
    /\ input = NoInput
    /\ output = NoOutput
    /\ root \in DirectoryPool
    /\ store = NoStore
    /\ bodies = NoBodies
    /\ files = <<>>
    /\ idx = 1
    /\ pc = "find"
    /\ allNodes = <<>>
    /\ allDependencies = <<>>
    /\ project = NoProject
    /\ graphData = NoData
    /\ view = "none"
    /\ viewData = NoData

\* findRustFiles(projectPath) on its own
FindRustFiles ==
    /\ pc = "find"
    /\ files' = findRustFiles(root, <<>>)
    /\ pc' = "rust-files"
    /\ UNCHANGED <<root, store, bodies, page, input, output>>
    /\ UNCHANGED <<idx, allNodes, allDependencies, project, graphData, view, viewData>>

\* findPythonFiles(projectPath) on its own
FindPythonFiles ==
    /\ pc = "find"
    /\ files' = findPythonFiles(root, <<>>, PackagesOf(root, <<>>))
    /\ pc' = "python-files"
    /\ UNCHANGED <<root, store, bodies, page, input, output>>
    /\ UNCHANGED <<idx, allNodes, allDependencies, project, graphData, view, viewData>>

\* parseRustProject(projectPath): the search and the parse of what it finds
ParseRustProject ==
    /\ pc = "find"
    /\ files' = findRustFiles(root, <<>>)
    /\ project' = parseRustProject(files')
    /\ pc' = "rust-project"
    /\ UNCHANGED <<root, store, bodies, page, input, output>>
    /\ UNCHANGED <<idx, allNodes, allDependencies, graphData, view, viewData>>

\* parsePythonProject(projectPath)
ParsePythonProject ==
    /\ pc = "find"
    /\ files' = findPythonFiles(root, <<>>, PackagesOf(root, <<>>))
    /\ project' = parsePythonProject(files')
    /\ pc' = "python-project"
    /\ UNCHANGED <<root, store, bodies, page, input, output>>
    /\ UNCHANGED <<idx, allNodes, allDependencies, graphData, view, viewData>>

NextFind ==
    \/ FindRustFiles
    \/ FindPythonFiles
    \/ ParseRustProject
    \/ ParsePythonProject

SpecFind == InitFind /\ [][NextFind]_vars

\* every file of a tree: the directories that lead to it, its name, and
\* whether all of these directories can be listed
RECURSIVE TreeFiles(_, _, _)
TreeFiles(dir, path, listed) ==
    LET here == {k \in 1..Len(dir.entries) : ~dir.entries[k].isDirectory}
        below == {k \in 1..Len(dir.entries) : dir.entries[k].isDirectory}
    IN  {[dir |-> path, name |-> dir.entries[k].name,
          listed |-> listed /\ dir.readable] : k \in here}
        \cup UNION {TreeFiles(dir.entries[k], Append(path, dir.entries[k].name),
                              listed /\ dir.readable) : k \in below}

\* the directory names the searches leave out, besides those that start
\* with "."
RustExcluded == {NameNodeModules, NameTarget}

PythonExcluded == {NameNodeModules, NamePycache, NameVenv, NameEnv}

\* a file that is reached from the root through directories none of which
\* is left out
Reachable(f, excluded) ==
    /\ f.listed
    /\ \A k \in 1..Len(f.dir) :
        ~StartsWith(f.dir[k], <<".">>) /\ f.dir[k] \notin excluded

\* how often the search returned a file of the tree
Found(f) ==
    Cardinality({k \in 1..Len(files) : files[k].dir = f.dir /\ files[k].name = f.name})

\* the search returned files of the tree only
OnlyTreeFiles ==
    \A k \in 1..Len(files) : \E f \in TreeFiles(root, <<>>, TRUE) :
        f.dir = files[k].dir /\ f.name = files[k].name

\* C17 as stated: findRustFiles and findPythonFiles return exactly once every
\* file whose name ends in the extension and that is reached through
\* directories none of which is left out, and no other file.
C17_EveryReachableSource ==
    /\ pc = "rust-files" =>
        /\ OnlyTreeFiles
        /\ \A f \in TreeFiles(root, <<>>, TRUE) :
            Found(f) = IF EndsWith(f.name, ExtRs) /\ Reachable(f, RustExcluded)
                       THEN 1 ELSE 0
    /\ pc = "python-files" =>
        /\ OnlyTreeFiles
        /\ \A f \in TreeFiles(root, <<>>, TRUE) :
            Found(f) = IF EndsWith(f.name, ExtPy) /\ Reachable(f, PythonExcluded)
                       THEN 1 ELSE 0

\* C17 amended: the searches return exactly once every file whose name ends
\* in the extension and does not start with ".", and that is reached through
\* directories none of which is left out, and no other file.
C17_EveryVisibleReachableSource ==
    /\ pc = "rust-files" =>
        /\ OnlyTreeFiles
        /\ \A f \in TreeFiles(root, <<>>, TRUE) :
            Found(f) = IF /\ EndsWith(f.name, ExtRs)
                          /\ ~StartsWith(f.name, <<".">>)
                          /\ Reachable(f, RustExcluded)
                       THEN 1 ELSE 0
    /\ pc = "python-files" =>
        /\ OnlyTreeFiles
        /\ \A f \in TreeFiles(root, <<>>, TRUE) :
            Found(f) = IF /\ EndsWith(f.name, ExtPy)
                          /\ ~StartsWith(f.name, <<".">>)
                          /\ Reachable(f, PythonExcluded)
                       THEN 1 ELSE 0

\* a Rust search that returned a file two directories below the root and
\* left out a file below a target directory and a hidden file with the
\* extension
C17_Witness ==
    /\ pc = "rust-files"
    /\ \E k \in 1..Len(files) : Len(files[k].dir) = 2
    /\ \E f \in TreeFiles(root, <<>>, TRUE) :
        /\ NameTarget \in Range(f.dir)
        /\ EndsWith(f.name, ExtRs)
        /\ Found(f) = 0
    /\ \E f \in TreeFiles(root, <<>>, TRUE) :
        /\ f.name = NameHiddenRs
        /\ Found(f) = 0

\* the files of the tree that the search returned and that cannot be read
UnreadableFiles == {files[k] : k \in {j \in 1..Len(files) : ~files[j].readable}}

ReadableFiles == {files[k] : k \in {j \in 1..Len(files) : files[j].readable}}

\* no file below a directory that cannot be listed was returned, and no node
\* of the project comes from a file that cannot be read
NothingFromUnreadable ==
    /\ \A f \in TreeFiles(root, <<>>, TRUE) : ~f.listed => Found(f) = 0
    /\ \A f \in UnreadableFiles : \A n \in Range(project.nodes) : n.file # FileOf(f)

\* C18: parseRustProject and parsePythonProject return a project whatever
\* cannot be read: a directory that cannot be listed gives no files, a file
\* that cannot be read gives no nodes, and every node and every edge of
\* every file that can be read is in the project (a Rust edge with its
\* source, its type and the name of its target).
C18_UnreadableIsSkipped ==
    /\ pc = "rust-project" =>
        /\ project.kind = "project"
        /\ NothingFromUnreadable
        /\ \A f \in ReadableFiles :
            /\ \A n \in Range(parseRustFile(f).nodes) :
                \E m \in Range(project.nodes) : m.id = n.id /\ m.file = n.file
            /\ \A d \in Range(parseRustFile(f).dependencies) :
                \E e \in Range(project.dependencies) :
                    /\ e.source = d.source
                    /\ e.type = d.type
                    /\ TargetName(e.target) = TargetName(d.target)
    /\ pc = "python-project" =>
        /\ project.kind = "project"
        /\ NothingFromUnreadable
        /\ \A f \in ReadableFiles :
            /\ \A n \in Range(parsePythonFile(f).nodes) : n \in Range(project.nodes)
            /\ \A d \in Range(parsePythonFile(f).dependencies) :
                d \in Range(project.dependencies)

(***************************************************************************)
(* Analysis route: GET on a project directory and its stored artifacts     *)
(***************************************************************************)
\* the view parameters of a request: none, the four views, and the two
\* names whose "<view>-data.json" is graph-data.json and project-data.json
ViewParameters ==
    {"", "3d-force", "hierarchical", "module-dependency", "call-graph", "graph",
     "project"}

\* line 23: searchParams.get('view') || '3d-force'
ViewOf(parameter) == IF parameter = "" THEN "3d-force" ELSE parameter

\* the "<name>-data.json" files of a project directory
ArtifactNames == {ViewOf(parameter) : parameter \in ViewParameters}

\* JSON.stringify of a tree: a module held by reference is written out with
\* its children where it is referred to
RECURSIVE JsonChild(_, _)
JsonChild(modules, child) ==
    [id |-> child.id, name |-> child.name, type |-> child.type, path |-> child.path,
     children |->
        IF child.isModule
        THEN LET held == modules[ModuleIndex(modules, child.path)].children
             IN  [k \in 1..Len(held) |-> JsonChild(modules, held[k])]
        ELSE <<>>]

\* JSON.parse(JSON.stringify(data)): what is stored and what is sent
JsonOf(data) ==
    IF data.kind = "tree"
    THEN [kind |-> "json", name |-> data.name,
          children |-> [k \in 1..Len(data.children) |->
                            JsonChild(data.modules, data.children[k])]]
    ELSE data

\* StoredView with the graph stored in place of the view
StoredViewGraph(graphData_, viewData_) == graphData_

\* lines 59, 90, 130: what is written to "<view>-data.json"
StoredView(graphData_, viewData_) == viewData_

\* a project directory: whether metadata.json is there, and the content of
\* each "<name>-data.json", NoData when the file is not there
ProjectDirectory(metadata, data) ==
    [kind |-> "directory", metadata |-> metadata, data |-> data]

NoArtifacts == [name \in ArtifactNames |-> NoData]

\* fs.writeFileSync(path, JSON.stringify(value, null, 2))
WriteJson(st, name, value) == [st EXCEPT !.data[name] = JsonOf(value)]

Response(status, body) == [status |-> status, body |-> body]

Answer(st, response, served) == [store |-> st, response |-> response, served |-> served]

\* the one element of a set: Only({F(x) : x \in {e}}) is F of the value of e
Only(S) == CHOOSE x \in S : TRUE

\* lines 57-61: the view made from the graph is stored and sent
FromGraph(st, v, g, made) ==
    Answer(WriteJson(st, v, StoredView(g, made)), Response(200, JsonOf(made)), "computed")

\* lines 67-92: the graph made from the project is stored, then the view
FromProject(st, v, g) ==
    Only({FromGraph(WriteJson(st, "graph", g), v, g, made) : made \in {ViewData(v, g)}})

\* lines 98-132: the parsed project is stored, then the graph, then the view
FromSources(st, v, rustProject) ==
    Only({FromProject(WriteJson(st, "project", rustProject), v, g) :
            g \in {convertToGraphData(rustProject)}})

\* route.ts line 95: the request has to parse the sources
AnalysisNeedsParse(st, v) ==
    /\ st.kind # "none"
    /\ st.data[v] = NoData
    /\ st.data["graph"] = NoData
    /\ st.data["project"] = NoData
    /\ st.metadata

\* GET, lines 10-92 and 135, when it does not parse
GETStored(st, v) ==
    IF st.kind = "none"
    THEN Answer(st, Response(404, "Project not found"), "not-found")
    ELSE IF st.data[v] # NoData
    THEN Answer(st, Response(200, JsonOf(st.data[v])), "cached")
    ELSE IF st.data["graph"] # NoData
    THEN Only({FromGraph(st, v, st.data["graph"], made) :
                made \in {ViewData(v, st.data["graph"])}})
    ELSE IF st.data["project"] # NoData
    THEN Only({FromProject(st, v, g) : g \in {convertToGraphData(st.data["project"])}})
    ELSE Answer(st, Response(404, "Project data not found"), "not-found")

\* GET, lines 10-143
GET(st, dir, v) ==
    IF AnalysisNeedsParse(st, v)
    THEN Only({FromSources(st, v, rustProject) :
                rustProject \in {parseRustProject(findRustFiles(dir, <<>>))}})
    ELSE GETStored(st, v)

\* the upload route, page.tsx lines 477-509: metadata.json, project-data.json
\* and graph-data.json of the project
Uploaded(rustProject) ==
    WriteJson(WriteJson(ProjectDirectory(TRUE, NoArtifacts), "project", rustProject),
              "graph", convertToGraphData(rustProject))

\* the sources of the analysed projects
AnalysisRoots ==
    {Directory(<<>>, <<TreeEntries[1], TreeEntries[8]>>, TRUE),
     Directory(<<>>, <<TreeEntries[3], TreeEntries[10]>>, TRUE),
     Directory(<<>>, <<TreeEntries[2]>>, TRUE)}

\* the project directories a request can meet: none, one without
\* metadata.json, one with metadata.json alone, one with the project data
\* but no graph data, and one as the upload leaves it
StoresOf(rustProject) ==
    {NoStore,
     ProjectDirectory(FALSE, NoArtifacts),
     ProjectDirectory(TRUE, NoArtifacts),
     WriteJson(ProjectDirectory(TRUE, NoArtifacts), "project", rustProject),
     Uploaded(rustProject)}

InitAnalysis ==
    /\ page = NoPage
    /\ input = NoInput
    /\ output = NoOutput
    /\ root \in AnalysisRoots
    /\ \E rustProject \in {parseRustProject(findRustFiles(root, <<>>))} :
        store \in StoresOf(rustProject)
    /\ bodies = [v \in ArtifactNames |-> {}]
    /\ files = <<>>
    /\ idx = 1
    /\ pc = "idle"
    /\ allNodes = <<>>
    /\ allDependencies = <<>>
    /\ project = NoProject
    /\ graphData = NoData
    /\ view = "none"
    /\ viewData = NoData

\* one request: the store after it, the response, how it was served, and
\* the responses sent so far for the view
Get ==
    \E parameter \in ViewParameters :
        \E answer \in {GET(store, root, ViewOf(parameter))} :
            /\ store' = answer.store
            /\ view' = ViewOf(parameter)
            /\ viewData' = answer.response
            /\ pc' = answer.served
            /\ bodies' = [bodies EXCEPT ![ViewOf(parameter)] = @ \cup {answer.response}]
            /\ UNCHANGED <<root, page, input, output, files, idx, allNodes,
                           allDependencies, project, graphData>>

NextAnalysis == Get

SpecAnalysis == InitAnalysis /\ [][NextAnalysis]_vars

\* C19: a request for a view that was answered before gets a response that
\* was sent before and leaves every stored artifact as it is; the first
\* request that makes the view leaves it in "<view>-data.json", where it is
\* what was sent.
C19_SameBodyFromCache ==
    [][/\ bodies[view'] # {} =>
            /\ viewData' \in bodies[view']
            /\ store' = store
       /\ (bodies[view'] = {} /\ viewData'.status = 200) =>
            store'.data[view'] = viewData'.body]_vars

\* a tree of modules sent from hierarchical-data.json after the request
\* that made it
C19_Witness ==
    /\ pc = "cached"
    /\ view = "hierarchical"
    /\ viewData.status = 200
    /\ viewData.body.kind = "json"
    /\ \E k \in 1..Len(viewData.body.children) :
        Len(viewData.body.children[k].children) > 0

\* the "{" less the "}" of code[from..to]
BraceDepth(code, from, to) ==
    Cardinality({k \in from..to : code[k] = "{"})
        - Cardinality({k \in from..to : code[k] = "}"})

\* the "}" that closes the "{" at position open, 0 when there is none
MatchingBrace(code, open) ==
    LET closes == {j \in (open + 1)..Len(code) :
                    code[j] = "}" /\ BraceDepth(code, open, j) = 0}
    IN  IF closes = {} THEN 0 ELSE Min(closes)

\* the names called in a span of code that are no keyword
CalledNames(span) ==
    {c.name : c \in {d \in Range(ExecAll([j \in 1..Len(span) |-> CallMatchAt(span, j)],
                                         Len(span), 1)) : d.name \notin RustKeywords}}

\* the names called between the header of the function matched at m and
\* the "}" that closes its body
BodyCalls(code, m) ==
    LET open == IndexOf(code, <<"{">>, m.index)
    IN  IF open = 0 \/ MatchingBrace(code, open) = 0 THEN {}
        ELSE CalledNames(Sub(code, m.index, MatchingBrace(code, open)))

\* C20: every call between the header of a function and the brace that
\* closes its body, a call after a nested block included, gives a calls
\* edge from the function to the called name.
C20_CallsOfWholeBody ==
    pc = "parse" =>
        \A i \in 1..(idx - 1) :
            files[i].readable =>
                \A m \in Range(ExecAll([j \in 1..Len(files[i].code) |->
                                FunctionMatchAt(files[i].code, j)],
                            Len(files[i].code), 1)) :
                    \A name \in BodyCalls(files[i].code, m) :
                        \E d \in Range(allDependencies) :
                            /\ d.type = "calls"
                            /\ d.source = generateId("function", m.name, files[i].stem)
                            /\ d.target = generateId("function", name, <<>>)

(***************************************************************************)
(* Block ends: findClassEndIndex and findFunctionEndIndex where the parser  *)
(* calls them                                                              *)
(***************************************************************************)
MaxLines == 3

\* the lines of the texts: headers of classes and functions at two
\* indentations, a header with a tab after def, statements at three
\* indentations, a blank line and comments at two indentations
TextLines ==
    {<<"c", "l", "a", "s", "s", " ", "A", ":">>,
     <<" ", "c", "l", "a", "s", "s", " ", "A", ":">>,
     <<"d", "e", "f", " ", "f", "(", ")", ":">>,
     <<" ", "d", "e", "f", " ", "f", "(", ")", ":">>,
     <<"d", "e", "f", "\t", "f", "(", ")", ":">>,
     <<"x">>,
     <<" ", "x">>,
     <<" ", " ", "x">>,
     <<>>,
     <<"#">>,
     <<" ", "#">>}

\* the texts of at most MaxLines lines
Texts == {Join(lines, <<"\n">>) : lines \in UNION {[1..n -> TextLines] : n \in 1..MaxLines}}

Applied(code, startIndex, endIndex, by) ==
    [code |-> code, startIndex |-> startIndex, endIndex |-> endIndex, by |-> by]

InitEnd ==
    /\ page = NoPage
    /\ input \in Texts
    /\ output = NoOutput
    /\ root = NoDirectory
    /\ store = NoStore
    /\ bodies = NoBodies
    /\ files = <<>>
    /\ idx = 1
    /\ pc = "text"
    /\ allNodes = <<>>
    /\ allDependencies = <<>>
    /\ project = NoProject
    /\ graphData = NoData
    /\ view = "none"
    /\ viewData = NoData

\* python-parser.ts line 143: the end of a class from the match of classRegex
ClassEnd ==
    /\ pc = "text"
    /\ \E m \in Range(ExecAll([i \in 1..Len(input) |-> ClassMatchAt(input, i)],
                              Len(input), 1)) :
        output' = Applied(input, m.index, findClassEndIndex(input, m.index), "class")
    /\ pc' = "end"
    /\ UNCHANGED <<root, store, bodies, page, input>>
    /\ UNCHANGED <<files, idx, allNodes, allDependencies, project, graphData, view, viewData>>

\* line 161: the end of a class from the first `class <name>` of the text
ClassEndOfName ==
    /\ pc = "text"
    /\ \E m \in Range(ExecAll([i \in 1..Len(input) |-> ClassMatchAt(input, i)],
                              Len(input), 1)) :
        \E at \in {IndexOf(input, KwClass \o <<" ">> \o m.name, 1)} :
            output' = Applied(input, at, findClassEndIndex(input, at), "name")
    /\ pc' = "end"
    /\ UNCHANGED <<root, store, bodies, page, input>>
    /\ UNCHANGED <<files, idx, allNodes, allDependencies, project, graphData, view, viewData>>

\* line 214: the end of a function from the match of functionRegex
FunctionEnd ==
    /\ pc = "text"
    /\ \E m \in Range(ExecAll([i \in 1..Len(input) |-> FunctionDefMatchAt(input, i)],
                              Len(input), 1)) :
        output' = Applied(input, m.index, findFunctionEndIndex(input, m.index), "def")
    /\ pc' = "end"
    /\ UNCHANGED <<root, store, bodies, page, input>>
    /\ UNCHANGED <<files, idx, allNodes, allDependencies, project, graphData, view, viewData>>

\* lines 143-145 and 367: the end of a method from the match of methodRegex
\* in the body of a class
MethodEnd ==
    /\ pc = "text"
    /\ \E c \in Range(ExecAll([i \in 1..Len(input) |-> ClassMatchAt(input, i)],
                              Len(input), 1)) :
        \E classBody \in {Sub(input, c.index, findClassEndIndex(input, c.index))} :
            \E m \in Range(ExecAll([i \in 1..Len(classBody) |->
                                        MethodMatchAt(classBody, i)],
                                   Len(classBody), 1)) :
                output' = Applied(classBody, m.index,
                                  findFunctionEndIndex(classBody, m.index), "def")
    /\ pc' = "end"
    /\ UNCHANGED <<root, store, bodies, page, input>>
    /\ UNCHANGED <<files, idx, allNodes, allDependencies, project, graphData, view, viewData>>

NextEnd ==
    \/ ClassEnd
    \/ ClassEndOfName
    \/ FunctionEnd
    \/ MethodEnd

SpecEnd == InitEnd /\ [][NextEnd]_vars

\* the start of the line that holds position p
LineStartOf(code, p) == Max({j \in 1..p : IsLineStart(code, j)})

\* the position after the line that starts at s
LineEndOf(code, s) ==
    IF IndexOf(code, <<"\n">>, s) = 0 THEN Len(code) + 1 ELSE IndexOf(code, <<"\n">>, s)

\* the whitespace at the head of the line that starts at s
IndentationOf(code, s) == Len(Sub(code, s, LineEndOf(code, s))) - Len(Sub(code, SkipWs(Sub(code, s, LineEndOf(code, s)), 1) + s - 1, LineEndOf(code, s)))

\* the lines after the header at position header that close a block of
\* indentation k: not blank, no comment, indented k or less
ClosingLines(code, header, k) ==
    {s \in (header + 1)..Len(code) :
        /\ IsLineStart(code, s)
        /\ \E p \in s..(LineEndOf(code, s) - 1) : ~IsWs(code[p])
        /\ IndentationOf(code, s) <= k
        /\ code[s + IndentationOf(code, s)] # "#"}

\* the end of the block of a header line of indentation k
EndOfBlock(code, header, k) ==
    IF ClosingLines(code, header, k) = {} THEN Len(code) + 1
    ELSE Min(ClosingLines(code, header, k)) - 1

\* C21: the offset returned for a class or function header is the end of the
\* text before the first later line that is not blank, is no comment and is
\* indented no deeper than the header line; it is the length of the text
\* when there is no such line, and it is never before the end of the header
\* line.
C21_EndOfIndentedBlock ==
    pc = "end" =>
        LET code == output.code
            header == SkipWs(code, output.startIndex)
            line == LineStartOf(code, header)
        IN  /\ output.endIndex = EndOfBlock(code, header, IndentationOf(code, line))
            /\ output.endIndex >= LineEndOf(code, line)

\* C22: in the project parseRustProject returns, the source of every edge is
\* the id of a node and the target is the id of a node of the kind the edge
\* type asks for (a function for calls, a trait for implements) whose name
\* is the name the target ends in.
C22_EdgesJoinNodes ==
    pc = "project" =>
        \A d \in Range(project.dependencies) :
            /\ \E n \in Range(project.nodes) : n.id = d.source
            /\ \E t \in Range(project.nodes) :
                /\ t.id = d.target
                /\ t.type = TargetType(d.type)
                /\ t.name = TargetName(d.target)
                /\ d.type = "calls" => t.type = "function"
                /\ d.type = "implements" => t.type = "trait"

\* a project with an implements edge from a struct to a trait declared in
\* another file
C22_Witness ==
    /\ pc = "project"
    /\ \E d \in Range(project.dependencies) :
        /\ d.type = "implements"
        /\ \E n, t \in Range(project.nodes) :
            n.id = d.source /\ t.id = d.target /\ n.file # t.file

\* the views the analysis route transforms the graph for
TransformedViews == {"hierarchical", "module-dependency", "call-graph"}

\* C24: a request for a view other than hierarchical, module-dependency and
\* call-graph that is answered with data returns the graph of
\* graph-data.json, and project-data.json holds a project afterwards, not
\* view data.
C24_OtherViewsGetTheGraph ==
    (pc \in {"cached", "computed"} /\ view \notin TransformedViews) =>
        /\ viewData.status = 200
        /\ viewData.body = store.data["graph"]
        /\ store.data["project"] # NoData => store.data["project"].kind = "project"

(***************************************************************************)
(* The projects store: upload POST, project GET and analysis GET, each     *)
(* handler running from one await to the next                               *)
(***************************************************************************)
MaxProjects == 1

MaxInFlight == 2

\* the project ids uuidv4() hands out, in the order of the uploads
ProjectIds == 1..MaxProjects

\* the generated files of a project directory besides metadata.json
StoreArtifacts == ArtifactNames \cup {"graph-rust", "graph-python"}

\* page.tsx line 371: the directory fs.mkdirSync makes, with what the
\* upload has put into it so far. No request changes the sources once they
\* are there, so parseRustProject(metadata.path) is the same project at
\* every call: it is kept with the sources as rustProject.
UploadDirectory(sources, metadata, language, rustProject) ==
    ProjectDirectory(metadata, [name \in StoreArtifacts |-> NoData])
        @@ [sources |-> sources, language |-> language, rustProject |-> rustProject]

\* the form data of an upload: its type, and the archive or repository it
\* names, NoDirectory when the field is missing
UploadTypes == {"file", "git", "other", "malformed"}

UploadRoots ==
    {Directory(<<>>, <<TreeEntries[4]>>, TRUE),
     Directory(<<>>, <<TreeEntries[1]>>, TRUE),
     Directory(<<>>, <<TreeEntries[1], TreeEntries[4]>>, TRUE),
     Directory(<<>>, <<TreeEntries[10]>>, TRUE)}

NameRequirements ==
    <<"r", "e", "q", "u", "i", "r", "e", "m", "e", "n", "t", "s", ".", "t", "x", "t">>

NameSetupPy == <<"s", "e", "t", "u", "p", ".", "p", "y">>

NameCargoToml == <<"C", "a", "r", "g", "o", ".", "t", "o", "m", "l">>

HasEntry(dir, name) == \E k \in 1..Len(dir.entries) : dir.entries[k].name = name

\* page.tsx lines 444-446
hasPythonFiles(dir) ==
    \/ HasEntry(dir, NameRequirements)
    \/ HasEntry(dir, NameSetupPy)
    \/ \E k \in 1..Len(dir.entries) : EndsWith(dir.entries[k].name, ExtPy)

\* page.tsx lines 448-449
hasRustFiles(dir) ==
    \/ HasEntry(dir, NameCargoToml)
    \/ \E k \in 1..Len(dir.entries) : EndsWith(dir.entries[k].name, ExtRs)

\* page.tsx lines 451-512: the language the upload detects, "" when it
\* falls back to the Rust parser without recording a language
DetectedLanguage(dir) ==
    IF hasPythonFiles(dir) THEN "python" ELSE IF hasRustFiles(dir) THEN "rust" ELSE ""

\* page.tsx lines 454, 477, 500: the project the upload parses
UploadParsed(dir, rustProject) ==
    IF hasPythonFiles(dir)
    THEN parsePythonProject(findPythonFiles(dir, <<>>, PackagesOf(dir, <<>>)))
    ELSE rustProject

\* page.tsx lines 462, 487, 507: the graph the upload stores
UploadGraph(language, parsed) ==
    IF language = "python" THEN pythonConvertToGraphData(parsed)
    ELSE convertToGraphData(parsed)

\* a request that waits at an await of its handler
Request(route, id, at, language, v, parsed, sources) ==
    [route |-> route, id |-> id, at |-> at, language |-> language, view |-> v,
     parsed |-> parsed, sources |-> sources]

\* a response, with the route that sent it and the project id it is about
Sent(route, id, status, body) ==
    [route |-> route, id |-> id, status |-> status, body |-> body]

\* the ids for which no directory exists
FreeIds == {id \in ProjectIds : store[id].kind = "none"}

\* page.tsx lines 456-474, 481-497, 503-509: what the upload writes after
\* the parse
PostWrites(st, language, parsed) ==
    [WriteJson(WriteJson(st, "project", parsed), "graph", UploadGraph(language, parsed))
        EXCEPT !.language = language]

\* page.tsx line 548: graph-data-<language>.json
LanguageGraph(language) == IF language = "python" THEN "graph-python" ELSE "graph-rust"

\* page.tsx lines 543-552: graphDataPath
GraphDataPath(st, language) ==
    IF language # "" /\ st.data[LanguageGraph(language)] # NoData
    THEN LanguageGraph(language)
    ELSE "graph"

\* nodeType.val of a node whose type is not in the table throws
PythonConvertible(projectData) ==
    \A k \in 1..Len(projectData.nodes) :
        projectData.nodes[k].type \in
            {"function", "class", "method", "module", "import", "variable",
             "constant", "decorator"}

\* page.tsx lines 561-594: the graph made from project-data.json is stored
\* under the name of its language and as graph-data.json
ProjectFromData(st, language) ==
    LET dataLanguage ==
            IF language # "" THEN language
            ELSE IF st.language # "" THEN st.language ELSE "rust"
    IN  IF ~st.metadata
        THEN Only({Answer(WriteJson(st, "graph", g), Response(200, JsonOf(g)), "computed") :
                    g \in {convertToGraphData(st.data["project"])}})
        ELSE IF dataLanguage = "python"
        THEN IF PythonConvertible(st.data["project"])
             THEN Only({Answer(WriteJson(WriteJson(st, "graph-python", g), "graph", g),
                               Response(200, JsonOf(g)), "computed") :
                        g \in {pythonConvertToGraphData(st.data["project"])}})
             ELSE Answer(st, Response(500, "Failed to fetch project data"), "failed")
        ELSE Only({Answer(WriteJson(WriteJson(st, "graph-rust", g), "graph", g),
                          Response(200, JsonOf(g)), "computed") :
                    g \in {convertToGraphData(st.data["project"])}})

\* page.tsx lines 597-614: what the project GET writes after the parse
ProjectFromSources(st, rustProject) ==
    Only({Answer(WriteJson(WriteJson(st, "project", rustProject), "graph", g),
                 Response(200, JsonOf(g)), "computed") :
            g \in {convertToGraphData(rustProject)}})

\* page.tsx lines 554-599: the project GET has to parse the sources
ProjectNeedsParse(st, language) ==
    /\ st.kind # "none"
    /\ st.data[GraphDataPath(st, language)] = NoData
    /\ st.data["project"] = NoData
    /\ st.metadata

\* page.tsx GET, lines 529-618, when it does not parse
ProjectGET(st, language) ==
    IF st.kind = "none"
    THEN Answer(st, Response(404, "Project not found"), "not-found")
    ELSE IF st.data[GraphDataPath(st, language)] # NoData
    THEN Answer(st, Response(200, JsonOf(st.data[GraphDataPath(st, language)])), "cached")
    ELSE IF st.data["project"] # NoData
    THEN ProjectFromData(st, language)
    ELSE Answer(st, Response(404, "Project metadata not found"), "not-found")

\* the views the page asks the analysis route for
PageViews == {"3d-force", "hierarchical", "module-dependency", "call-graph"}

\* the language parameter of a project GET, "" when there is none
LanguageParameters == {"", "python", "rust"}

InitStore ==
    /\ page = NoPage
    /\ input = {}
    /\ output = NoOutput
    /\ root = NoDirectory
    /\ store = [id \in ProjectIds |-> NoStore]
    /\ bodies = NoBodies
    /\ files = <<>>
    /\ idx = 1
    /\ pc = "idle"
    /\ allNodes = <<>>
    /\ allDependencies = <<>>
    /\ project = NoProject
    /\ graphData = NoData
    /\ view = "none"
    /\ viewData = NoData

\* POST up to its first await after the form data: the directory is made
\* (line 371) and the form is validated (lines 376-419)
PostStart ==
    /\ Cardinality(input) < MaxInFlight
    /\ FreeIds # {}
    /\ \E type \in UploadTypes, sources \in UploadRoots \cup {NoDirectory} :
        \E id \in {Min(FreeIds)} :
            IF type = "malformed"
            THEN /\ output' = Sent("post", 0, 500, "Failed to process project")
                 /\ pc' = "post-rejected"
                 /\ UNCHANGED <<store, input>>
            ELSE /\ store' = [store EXCEPT ![id] = UploadDirectory(NoDirectory, FALSE, "", NoProject)]
                 /\ IF type = "file" /\ sources = NoDirectory
                    THEN /\ output' = Sent("post", id, 400, "No file provided")
                         /\ pc' = "post-rejected"
                         /\ input' = input
                    ELSE IF type = "git" /\ sources = NoDirectory
                    THEN /\ output' = Sent("post", id, 400, "No Git URL provided")
                         /\ pc' = "post-rejected"
                         /\ input' = input
                    ELSE IF type = "other"
                    THEN /\ output' = Sent("post", id, 400, "Invalid upload type")
                         /\ pc' = "post-rejected"
                         /\ input' = input
                    ELSE /\ input' = input \cup
                                {Request("post", id, "transfer", "", "", NoProject, sources)}
                         /\ pc' = "post-started"
                         /\ output' = output
    /\ UNCHANGED <<root, bodies, page, files, idx, allNodes, allDependencies, project,
                   graphData, view, viewData>>

\* POST from the end of extract / clone (lines 393, 414) to the await of
\* the parse (lines 454, 477, 500): the sources are in the directory,
\* metadata.json is written; or the transfer throws and the catch answers
PostTransferred ==
    /\ \E request \in input, done \in BOOLEAN :
        /\ request.route = "post"
        /\ request.at = "transfer"
        /\ IF done
           THEN \E rustProject \in {parseRustProject(findRustFiles(request.sources, <<>>))} :
                /\ store' = [store EXCEPT ![request.id] =
                                UploadDirectory(request.sources, TRUE, "", rustProject)]
                /\ input' = (input \ {request}) \cup
                        {Request("post", request.id, "parsed",
                                 DetectedLanguage(request.sources), "",
                                 UploadParsed(request.sources, rustProject),
                                 request.sources)}
                /\ pc' = "post-parsed"
                /\ output' = output
           ELSE /\ output' = Sent("post", request.id, 500, "Failed to process project")
                /\ input' = input \ {request}
                /\ pc' = "post-rejected"
                /\ store' = store
    /\ UNCHANGED <<root, bodies, page, files, idx, allNodes, allDependencies, project,
                   graphData, view, viewData>>

\* POST after the await of the parse: the artifacts are written
PostResume ==
    /\ \E request \in input :
        /\ request.route = "post"
        /\ request.at = "parsed"
        /\ store' = [store EXCEPT ![request.id] = PostWrites(@, request.language, request.parsed)]
        /\ input' = input \ {request}
        /\ output' = Sent("post", request.id, 200, "Project uploaded and processed successfully")
        /\ pc' = "post-done"
    /\ UNCHANGED <<root, bodies, page, files, idx, allNodes, allDependencies, project,
                   graphData, view, viewData>>

\* project GET up to its answer, or up to the await of the parse (line 601)
ProjectGetStart ==
    /\ Cardinality(input) < MaxInFlight
    /\ \E id \in ProjectIds, language \in LanguageParameters :
        IF ProjectNeedsParse(store[id], language)
        THEN /\ input' = input \cup
                    {Request("project", id, "parsed", language, "",
                             store[id].rustProject, NoDirectory)}
             /\ pc' = "project-parsed"
             /\ UNCHANGED <<store, output>>
        ELSE \E answer \in {ProjectGET(store[id], language)} :
                /\ store' = [store EXCEPT ![id] = answer.store]
                /\ output' = Sent("project", id, answer.response.status, answer.response.body)
                /\ pc' = answer.served
                /\ input' = input
    /\ UNCHANGED <<root, bodies, page, files, idx, allNodes, allDependencies, project,
                   graphData, view, viewData>>

\* project GET after the await of the parse (lines 604-614)
ProjectGetResume ==
    /\ \E request \in input :
        /\ request.route = "project"
        /\ \E answer \in {ProjectFromSources(store[request.id], request.parsed)} :
            /\ store' = [store EXCEPT ![request.id] = answer.store]
            /\ output' = Sent("project", request.id, answer.response.status,
                              answer.response.body)
            /\ pc' = answer.served
        /\ input' = input \ {request}
    /\ UNCHANGED <<root, bodies, page, files, idx, allNodes, allDependencies, project,
                   graphData, view, viewData>>

\* analysis GET up to its answer, or up to the await of the parse
\* (route.ts line 100)
AnalysisGetStart ==
    /\ Cardinality(input) < MaxInFlight
    /\ \E id \in ProjectIds, v \in PageViews :
        /\ view' = v
        /\ IF AnalysisNeedsParse(store[id], v)
           THEN /\ input' = input \cup
                        {Request("analysis", id, "parsed", "", v,
                                 store[id].rustProject, NoDirectory)}
                /\ pc' = "analysis-parsed"
                /\ UNCHANGED <<store, output>>
           ELSE \E answer \in {GETStored(store[id], v)} :
                    /\ store' = [store EXCEPT ![id] = answer.store]
                    /\ output' = Sent("analysis", id, answer.response.status,
                                      answer.response.body)
                    /\ pc' = answer.served
                    /\ input' = input
    /\ UNCHANGED <<root, bodies, page, files, idx, allNodes, allDependencies, project,
                   graphData, viewData>>

\* analysis GET after the await of the parse (route.ts lines 102-132)
AnalysisGetResume ==
    /\ \E request \in input :
        /\ request.route = "analysis"
        /\ \E answer \in {FromSources(store[request.id], request.view, request.parsed)} :
            /\ store' = [store EXCEPT ![request.id] = answer.store]
            /\ output' = Sent("analysis", request.id, answer.response.status,
                              answer.response.body)
            /\ pc' = answer.served
        /\ input' = input \ {request}
    /\ UNCHANGED <<root, bodies, page, files, idx, allNodes, allDependencies, project,
                   graphData, view, viewData>>

NextStore ==
    \/ PostStart
    \/ PostTransferred
    \/ PostResume
    \/ ProjectGetStart
    \/ ProjectGetResume
    \/ AnalysisGetStart
    \/ AnalysisGetResume

SpecStore == InitStore /\ [][NextStore]_vars

\* the artifacts a project directory keeps for later requests
CachedArtifacts == {"project", "graph"} \cup PageViews

\* C23: an artifact of a project (project-data.json, graph-data.json or the
\* cached data of a view) that exists is left with the content it has by
\* every step of every request.
C23_WriteOnce ==
    [][\A id \in ProjectIds : \A name \in CachedArtifacts :
          (store[id].kind # "none" /\ store[id].data[name] # NoData) =>
              store'[id].data[name] = store[id].data[name]]_vars

\* C25: when an upload has been rejected (a 400 for a missing file, a
\* missing Git URL or an unknown type, or a 500), no directory exists in
\* the projects store for the id the request drew.
C25_RejectedLeavesNoDirectory ==
    (pc = "post-rejected" /\ output.id \in ProjectIds) =>
        store[output.id].kind = "none"

(***************************************************************************)
(* The views: what ForceGraph3D and HierarchicalView hand to the renderer  *)
(***************************************************************************)
MaxShown == 2

\* part_005 lines 166-178: the visible node and edge types handleToggleAll
\* sets
VisibleTypes(nodeTypes, edgeTypes) ==
    [visibleNodeTypes |-> nodeTypes, visibleEdgeTypes |-> edgeTypes]

RustNodeTypes ==
    {"function", "struct", "enum", "trait", "impl", "module", "constant", "macro", "use"}

RustEdgeTypes == {"calls", "implements", "uses", "contains", "extends"}

PythonNodeTypes ==
    {"function", "class", "method", "module", "import", "variable", "constant",
     "decorator"}

PythonEdgeTypes == {"calls", "imports", "inherits", "contains", "uses"}

handleToggleAll(showAll) ==
    IF showAll THEN VisibleTypes(RustNodeTypes, RustEdgeTypes) ELSE VisibleTypes({}, {})

\* ForceGraph3D.tsx lines 52-56 with the node ids left out of the test
LinkIsVisibleByType(link, visibleNodeIds, visibleEdgeTypes) ==
    link.type \in visibleEdgeTypes

\* ForceGraph3D.tsx lines 48-57: the test of a link; the ends of the links
\* of a GraphView are ids, typeof link.source === 'string'
LinkIsVisible(link, visibleNodeIds, visibleEdgeTypes) ==
    /\ link.source \in visibleNodeIds
    /\ link.target \in visibleNodeIds
    /\ link.type \in visibleEdgeTypes

\* ForceGraph3D.tsx lines 43-64: filteredData
ForceGraph3DFilteredData(data, visibleNodeTypes, visibleEdgeTypes) ==
    LET visibleNodes == SelectSeq(data.nodes, LAMBDA node : node.type \in visibleNodeTypes)
        visibleNodeIds == {visibleNodes[k].id : k \in 1..Len(visibleNodes)}
    IN  [kind |-> "graph",
         nodes |-> visibleNodes,
         links |-> SelectSeq(data.links,
                     LAMBDA link : LinkIsVisible(link, visibleNodeIds, visibleEdgeTypes))]

\* HierarchicalView.tsx lines 58-63: collectTypes over a list of nodes
RECURSIVE CollectTypes(_)
CollectTypes(nodes) ==
    UNION {{nodes[k].type} \cup CollectTypes(nodes[k].children) : k \in 1..Len(nodes)}

\* HierarchicalView.tsx lines 77-100: filterNode over a list of nodes,
\* the nodes for which it returns null left out
RECURSIVE FilterNodes(_, _)
FilterNodes(nodes, visibleNodeTypes) ==
    IF nodes = <<>> THEN <<>>
    ELSE LET node == Head(nodes)
             isVisible == node.type = "module" \/ node.type \in visibleNodeTypes
             rest == FilterNodes(Tail(nodes), visibleNodeTypes)
         IN  IF ~isVisible /\ node.type # "module" THEN rest
             ELSE LET filteredChildren == FilterNodes(node.children, visibleNodeTypes)
                  IN  IF /\ node.type # "module"
                         /\ filteredChildren = <<>>
                         /\ node.children # <<>>
                      THEN rest
                      ELSE <<[node EXCEPT !.children = filteredChildren]>> \o rest

\* HierarchicalView.tsx lines 52-109: filteredData; no visible type at all
\* is taken as every type of the tree
HierarchicalViewFilteredData(data, visibleNodeTypes) ==
    [kind |-> "json", name |-> data.name,
     children |->
        FilterNodes(data.children,
                    IF Cardinality(visibleNodeTypes) = 0
                    THEN CollectTypes(data.children)
                    ELSE visibleNodeTypes)]

\* the node types and edge types a user leaves visible
ShownNodeTypes == {"function", "module", "struct"}

ShownEdgeTypes == {{}, {"calls"}, {"calls", "uses"}}

VisibilityPool ==
    {handleToggleAll(TRUE), handleToggleAll(FALSE)} \cup
    {VisibleTypes(nodeTypes, edgeTypes) :
        nodeTypes \in SUBSET ShownNodeTypes, edgeTypes \in ShownEdgeTypes}

\* the graphs the views are given
ShownGraphs ==
    {[kind |-> "graph",
      nodes |-> [k \in 1..Len(types) |->
                    GraphNode(NodeId(k), <<"x">>, types[k], 5, "#9E9E9E",
                              <<"a">>, <<"a", ":", ":", "m">>, NoFile)],
      links |-> links] :
        types \in UNION {[1..n -> ShownNodeTypes] : n \in 0..MaxShown},
        links \in UNION {[1..n -> LinkPool] : n \in 0..MaxShown}}

InitFilter ==
    /\ page = NoPage
    /\ input \in VisibilityPool
    /\ output = NoOutput
    /\ root = NoDirectory
    /\ store = NoStore
    /\ bodies = NoBodies
    /\ files = <<>>
    /\ idx = 1
    /\ pc = "data"
    /\ allNodes = <<>>
    /\ allDependencies = <<>>
    /\ project = NoProject
    /\ graphData \in ShownGraphs
    /\ view = "none"
    /\ viewData = NoData

\* ForceGraph3D renders the graph
RenderForceGraph3D ==
    /\ pc = "data"
    /\ output' = ForceGraph3DFilteredData(graphData, input.visibleNodeTypes,
                                          input.visibleEdgeTypes)
    /\ view' = "3d-force"
    /\ pc' = "graph-rendered"
    /\ UNCHANGED <<root, store, bodies, page, input, files, idx, allNodes,
                   allDependencies, project, graphData, viewData>>

\* HierarchicalView renders the tree the analysis route makes of the graph
RenderHierarchicalView ==
    /\ pc = "data"
    /\ viewData' = JsonOf(convertToHierarchical(graphData))
    /\ output' = HierarchicalViewFilteredData(viewData', input.visibleNodeTypes)
    /\ view' = "hierarchical"
    /\ pc' = "tree-rendered"
    /\ UNCHANGED <<root, store, bodies, page, input, files, idx, allNodes,
                   allDependencies, project, graphData>>

NextFilter == RenderForceGraph3D \/ RenderHierarchicalView

SpecFilter == InitFilter /\ [][NextFilter]_vars

\* the nodes of a rendered tree, at every depth
RECURSIVE TreeNodes(_)
TreeNodes(nodes) ==
    UNION {{nodes[k]} \cup TreeNodes(nodes[k].children) : k \in 1..Len(nodes)}

\* C29: HierarchicalView renders a node that is no module only if its type
\* is visible, so with no visible type (handleToggleAll(false)) its tree
\* holds module nodes only; and ForceGraph3D then shows no node.
C29_HiddenTypesAreNotRendered ==
    /\ pc = "tree-rendered" =>
        \A node \in TreeNodes(output.children) :
            node.type = "module" \/ node.type \in input.visibleNodeTypes
    /\ (pc = "graph-rendered" /\ input = handleToggleAll(FALSE)) => output.nodes = <<>>

\* C30: every link ForceGraph3D hands to the graph engine has a visible
\* type and a source and a target among the nodes it hands over, and every
\* node it hands over has a visible type.
C30_DisplayedLinksJoinDisplayedNodes ==
    pc = "graph-rendered" =>
        /\ \A link \in Range(output.links) :
            /\ link.type \in input.visibleEdgeTypes
            /\ \E node \in Range(output.nodes) : node.id = link.source
            /\ \E node \in Range(output.nodes) : node.id = link.target
        /\ \A node \in Range(output.nodes) : node.type \in input.visibleNodeTypes

\* a link of a visible type is dropped for an end that is not displayed,
\* and another link is displayed
C30_Witness ==
    /\ pc = "graph-rendered"
    /\ output.links # <<>>
    /\ \E link \in Range(graphData.links) :
        /\ link.type \in input.visibleEdgeTypes
        /\ link \notin Range(output.links)

(***************************************************************************)
(* The page: Home, its handlers and the responses they wait for            *)
(***************************************************************************)
\* the state of Home, part_005 lines 15-35; selectedProject 0 is null,
\* error "" is null
HomeState(selectedProject, activeView, graphData_, hierarchicalData, error,
          currentLanguage, availableLanguages, visibility, isLoading) ==
    [selectedProject |-> selectedProject, activeView |-> activeView,
     graphData |-> graphData_, hierarchicalData |-> hierarchicalData,
     error |-> error, currentLanguage |-> currentLanguage,
     availableLanguages |-> availableLanguages,
     visibleNodeTypes |-> visibility.visibleNodeTypes,
     visibleEdgeTypes |-> visibility.visibleEdgeTypes,
     isLoading |-> isLoading]

\* part_005 lines 73-89 and 197-213: the types shown for a language,
\* Python's for 'python' and Rust's for everything else
LanguageVisibility(language) ==
    IF language = "python" THEN VisibleTypes(PythonNodeTypes, PythonEdgeTypes)
    ELSE VisibleTypes(RustNodeTypes, RustEdgeTypes)

\* the body of a response: of the analysis route for a view, or of the
\* projects route for a language
ViewBody(v) ==
    [kind |-> IF v = "hierarchical" THEN "tree" ELSE "graph", view |-> v, language |-> ""]

LanguageBody(language) == [kind |-> "graph", view |-> "", language |-> language]

\* part_005 lines 224-295: convertToHierarchicalData, the tree the page
\* makes of a graph
PageTree(data) == [kind |-> "tree", view |-> data.view, language |-> data.language]

\* a request of a handler that waits for its response; view is the view
\* the handler was called with or saw when it was called
Pending(handler, v, language) == [handler |-> handler, view |-> v, language |-> language]

\* the languages metadata.json can name, "" when it names none
MetadataLanguages == {"", "rust", "python"}

InitPage ==
    /\ page = HomeState(0, "3d-force", NoData, NoData, "", "rust", <<"rust">>,
                        VisibleTypes(RustNodeTypes, RustEdgeTypes), FALSE)
    /\ input = {}
    /\ output = NoOutput
    /\ root = NoDirectory
    /\ store \in {[kind |-> "metadata", language |-> language] :
                    language \in MetadataLanguages}
    /\ bodies = NoBodies
    /\ files = <<>>
    /\ idx = 1
    /\ pc = "projects"
    /\ allNodes = <<>>
    /\ allDependencies = <<>>
    /\ project = NoProject
    /\ graphData = NoData
    /\ view = "none"
    /\ viewData = NoData

PageUnchanged ==
    UNCHANGED <<root, store, bodies, output, files, idx, allNodes, allDependencies,
                project, graphData, view, viewData>>

\* handleSelectProject up to the request for the metadata, lines 37-48
SelectProject ==
    /\ page.selectedProject = 0
    /\ Cardinality(input) < MaxInFlight
    /\ Pending("metadata", page.activeView, "") \notin input
    /\ page' = [page EXCEPT !.selectedProject = 1, !.graphData = NoData,
                            !.hierarchicalData = NoData, !.isLoading = TRUE,
                            !.error = ""]
    /\ input' = input \cup {Pending("metadata", page.activeView, "")}
    /\ pc' = "selected"
    /\ PageUnchanged

\* handleSelectProject from the metadata to the request for the graph,
\* lines 48-92, or to its catch and finally, lines 100-105
MetadataArrives ==
    /\ \E request \in input, ok \in BOOLEAN :
        /\ request.handler = "metadata"
        /\ IF ok
           THEN /\ page' = [page EXCEPT
                    !.currentLanguage = IF store.language = "" THEN "rust"
                                        ELSE store.language,
                    !.availableLanguages = IF store.language = "python"
                                           THEN <<"python", "rust">> ELSE <<"rust">>,
                    !.visibleNodeTypes = LanguageVisibility(store.language).visibleNodeTypes,
                    !.visibleEdgeTypes = LanguageVisibility(store.language).visibleEdgeTypes]
                /\ input' = (input \ {request}) \cup {Pending("graph", request.view, "")}
                /\ pc' = "metadata-loaded"
           ELSE /\ page' = [page EXCEPT
                    !.error = "Failed to load project data. Please try again.",
                    !.isLoading = FALSE]
                /\ input' = input \ {request}
                /\ pc' = "select-failed"
    /\ PageUnchanged

\* handleSelectProject from the graph on, lines 92-105
SelectGraphArrives ==
    /\ \E request \in input, ok \in BOOLEAN :
        /\ request.handler = "graph"
        /\ IF ok
           THEN /\ page' = IF request.view = "hierarchical"
                           THEN [page EXCEPT !.hierarchicalData = ViewBody(request.view),
                                             !.isLoading = FALSE]
                           ELSE [page EXCEPT !.graphData = ViewBody(request.view),
                                             !.isLoading = FALSE]
                /\ pc' = "project-loaded"
           ELSE /\ page' = [page EXCEPT
                    !.error = "Failed to load project data. Please try again.",
                    !.isLoading = FALSE]
                /\ pc' = "select-failed"
        /\ input' = input \ {request}
    /\ PageUnchanged

\* handleViewChange up to its request, lines 109-118
ViewChange ==
    /\ page.selectedProject # 0
    /\ Cardinality(input) < MaxInFlight
    /\ \E v \in PageViews :
        /\ Pending("view", v, "") \notin input
        /\ page' = [page EXCEPT !.activeView = v, !.isLoading = TRUE,
                                !.graphData = NoData, !.hierarchicalData = NoData]
        /\ input' = input \cup {Pending("view", v, "")}
    /\ pc' = "view-requested"
    /\ PageUnchanged

\* handleViewChange from the response on, lines 118-130
ViewArrives ==
    /\ \E request \in input, ok \in BOOLEAN :
        /\ request.handler = "view"
        /\ IF ok
           THEN /\ page' = IF request.view = "hierarchical"
                           THEN [page EXCEPT !.hierarchicalData = ViewBody(request.view),
                                             !.isLoading = FALSE]
                           ELSE [page EXCEPT !.graphData = ViewBody(request.view),
                                             !.isLoading = FALSE]
                /\ pc' = "view-loaded"
           ELSE /\ page' = [page EXCEPT
                    !.error = "Failed to load visualization. Please try again.",
                    !.isLoading = FALSE]
                /\ pc' = "view-failed"
        /\ input' = input \ {request}
    /\ PageUnchanged

\* handleLanguageChange up to its request, lines 181-188; the selector is
\* shown when there is more than one language, line 424
LanguageChange ==
    /\ page.selectedProject # 0
    /\ Len(page.availableLanguages) > 1
    /\ Cardinality(input) < MaxInFlight
    /\ \E language \in {"rust", "python"} :
        /\ Pending("language", "", language) \notin input
        /\ page' = [page EXCEPT !.currentLanguage = language, !.isLoading = TRUE]
        /\ input' = input \cup {Pending("language", "", language)}
    /\ pc' = "language-requested"
    /\ PageUnchanged

\* handleLanguageChange from the response on, lines 188-220
LanguageArrives ==
    /\ \E request \in input, ok \in BOOLEAN :
        /\ request.handler = "language"
        /\ IF ok
           THEN /\ page' = [page EXCEPT
                    !.graphData = LanguageBody(request.language),
                    !.hierarchicalData = PageTree(LanguageBody(request.language)),
                    !.visibleNodeTypes = LanguageVisibility(request.language).visibleNodeTypes,
                    !.visibleEdgeTypes = LanguageVisibility(request.language).visibleEdgeTypes,
                    !.isLoading = FALSE]
                /\ pc' = "language-loaded"
           ELSE /\ page' = [page EXCEPT
                    !.error = "Failed to load visualization data.",
                    !.isLoading = FALSE]
                /\ pc' = "language-failed"
        /\ input' = input \ {request}
    /\ PageUnchanged

\* handleToggleAll, lines 166-178, from the controls of the visualization
\* screen
ToggleAll ==
    /\ page.selectedProject # 0
    /\ \E showAll \in BOOLEAN :
        /\ page' = [page EXCEPT
                !.visibleNodeTypes = handleToggleAll(showAll).visibleNodeTypes,
                !.visibleEdgeTypes = handleToggleAll(showAll).visibleEdgeTypes]
        /\ pc' = IF showAll THEN "all-shown" ELSE "all-hidden"
    /\ input' = input
    /\ PageUnchanged

\* "Back to Projects", line 349: setSelectedProject(null)
BackToProjects ==
    /\ page.selectedProject # 0
    /\ page' = [page EXCEPT !.selectedProject = 0]
    /\ pc' = "projects"
    /\ input' = input
    /\ PageUnchanged

NextPage ==
    \/ SelectProject
    \/ MetadataArrives
    \/ SelectGraphArrives
    \/ ViewChange
    \/ ViewArrives
    \/ LanguageChange
    \/ LanguageArrives
    \/ ToggleAll
    \/ BackToProjects

SpecPage == InitPage /\ [][NextPage]_vars

\* lines 472-493: the visualization is on the screen
RendersVisualization ==
    /\ page.selectedProject # 0
    /\ ~page.isLoading
    /\ page.error = ""
    /\ \/ page.activeView = "hierarchical" /\ page.hierarchicalData # NoData
       \/ page.graphData # NoData

\* lines 474-486: the data of the view that is on the screen
RenderedData ==
    IF page.activeView = "hierarchical" /\ page.hierarchicalData # NoData
    THEN page.hierarchicalData
    ELSE page.graphData

\* C26: when the page is not loading and renders a visualization from a
\* response of the analysis route, that response was requested for the
\* active view; and the page is not loading only when no request of a view
\* change waits for its response.
C26_RenderedDataIsOfActiveView ==
    /\ (RendersVisualization /\ RenderedData.view \in PageViews) =>
            RenderedData.view = page.activeView
    /\ ~page.isLoading => \A request \in input : request.handler # "view"

\* C27: when a view change or a language change has succeeded, nothing
\* else is awaited and the project is still selected, the visualization is
\* rendered and no error is shown.
C27_SuccessClearsError ==
    (pc \in {"view-loaded", "language-loaded"} /\ input = {} /\ page.selectedProject # 0) =>
        /\ page.error = ""
        /\ RendersVisualization

\* C28: after handleToggleAll(true) the visible node types and edge types
\* are those of the selected language.
C28_ShowAllShowsLanguageTypes ==
    pc = "all-shown" =>
        /\ page.visibleNodeTypes = LanguageVisibility(page.currentLanguage).visibleNodeTypes
        /\ page.visibleEdgeTypes = LanguageVisibility(page.currentLanguage).visibleEdgeTypes

====
